---------------------------- MODULE Spec2Model ----------------------------
(***************************************************************************)
(* Scoring, rotation and statistics engine of the Roundnet scoreboard      *)
(* (src/js/Scoreboard.js): the event log and the score-edit handlers, the  *)
(* set-winner / overtime classifier and the serve / receive rotation.      *)
(*                                                                         *)
(* The score fields of the page are the table `score`; every handler is    *)
(* one action and every query one operator plus an action that records     *)
(* its return value in `last`.                                             *)
(***************************************************************************)
EXTENDS Integers, Sequences, FiniteSets, TLC

VARIABLES
    event_history,      \* this.event_history
    score,              \* value of the score field of (set, team)
    active_set,         \* this.active_set
    set_counter,        \* value of #Set_Count and set shown as active (updateSets)
    win_points,         \* this.gameSettings.win_points
    hardcap,            \* this.gameSettings.hardcap
    starting_server,    \* value of score.set_N.starting_server, per set
    starting_receiver,  \* value of score.set_N.starting_receiver, per set
    authorized,         \* user && channel && user.channels.includes(channel)
    last                \* the handler or query that ran last, with its locals

vars == <<event_history, score, active_set, set_counter, win_points, hardcap,
          starting_server, starting_receiver, authorized, last>>

-----------------------------------------------------------------------------
(* Bounds of the model *)

MaxLog == 3         \* Spec: handlers are explored while the log is shorter
MaxScore == 2       \* highest score reached with the score buttons
MaxOver == 2        \* SpecCap: distance from the cap explored, either side
MaxHist == 3        \* SpecHist: longest log read
MaxClassScore == 26 \* SpecWin: highest score classified
MaxPointIndex == 99 \* SpecRot: highest point index asked for
MaxStatLog == 3     \* SpecStat: longest log read
MaxLoadLog == 2     \* SpecLoad: set changes are explored while the log is shorter
MaxElems == 2       \* SpecUpload: longest list of elements uploaded
MaxScoredSet == 3   \* SpecSets: sets that hold a score
MaxRemoveLog == 3   \* SpecRemove: longest log edited
MaxTieLog == 4      \* SpecTie: edits explored while the log is shorter
MaxClickLog == 6    \* SpecClicks: clicks explored while the log is shorter
MaxPlayed == 4      \* SpecPlay: points played on from the state drawn

EditSets == {1, 2}      \* sets edited and navigated to
TypedScores == {0, 2}   \* scores typed into a score field
SquadScores == {0, 1}   \* scores typed into a squad score field
SquadTeams == {"a"}     \* team whose squad score field is typed into
NegativeScores == {-1}  \* negative numbers typed into a score field
WinPointsValues == {15, 21}     \* values typed into the win points field
HardcapValues == {21, 25}       \* values typed into the hardcap field

(* Program constants *)

HistoryLimit == 200         \* handleEventHistory
NumSets == 7                \* set change buttons handler: newSet <= 7
DefaultWinPoints == 15      \* constructor
DefaultHardcap == 21        \* constructor
min_win_margin == 2         \* constructor

Teams == {"a", "b"}
Players == {"a", "b", "c", "d"}
Sets == 1..NumSets

-----------------------------------------------------------------------------
(* Events of the log.  A field the JavaScript object does not have is "-"  *)
(* (team) or 0 (score, set); the squad event's set 'squad' is 0.           *)

ScoreEvent(team, set, sc) == [type |-> "score", team |-> team, score |-> sc, set |-> set]
SquadEvent(team, sc) == [type |-> "squad_score", team |-> team, score |-> sc, set |-> 0]
SetEvent(set) == [type |-> "set", team |-> "-", score |-> 0, set |-> set]
ResetEvent == [type |-> "reset", team |-> "-", score |-> 0, set |-> 0]

(* Array.prototype.slice(start) for start >= 0, and slice(-n) *)
sliceFrom(h, start) == SubSeq(h, start + 1, Len(h))
sliceLast(h, n) == IF Len(h) > n THEN SubSeq(h, Len(h) - n + 1, Len(h)) ELSE h

(* Array.prototype.splice(index, 1), index 0-based *)
spliceOne(h, index) == SubSeq(h, 1, index) \o SubSeq(h, index + 2, Len(h))

-----------------------------------------------------------------------------
(* handleEventHistory: keep the most recent HistoryLimit entries *)

(* handleEventHistory that keeps the oldest entries *)
handleEventHistory_keepOldest(h) ==
    IF Len(h) > HistoryLimit THEN SubSeq(h, 1, HistoryLimit) ELSE h

handleEventHistory(h) ==
    IF Len(h) > HistoryLimit THEN sliceLast(h, HistoryLimit) ELSE h

(* uploadData, as far as the log goes: refused for a user who is not       *)
(* authorised for the channel, else the log is trimmed before it is written *)
uploadData(h) == IF ~authorized THEN h ELSE handleEventHistory(h)

(* The oldScore loop without the comparison of the set *)
findOldScore_anySet(h, team, set, isSquadScore) ==
    LET eventType == IF isSquadScore THEN "squad_score" ELSE "score"
        hits == {i \in 0..(Len(h) - 1) :
                    /\ h[i + 1].type = eventType
                    /\ h[i + 1].team = team}
    IN  IF hits = {} THEN 0
        ELSE h[(CHOOSE i \in hits : \A j \in hits : j <= i) + 1].score

(* The oldScore loop scanning from the head *)
findOldScore_oldest(h, team, set, isSquadScore) ==
    LET eventType == IF isSquadScore THEN "squad_score" ELSE "score"
        hits == {i \in 0..(Len(h) - 1) :
                    /\ h[i + 1].type = eventType
                    /\ h[i + 1].team = team
                    /\ (isSquadScore \/ h[i + 1].set = set)}
    IN  IF hits = {} THEN 0
        ELSE h[(CHOOSE i \in hits : \A j \in hits : i <= j) + 1].score

(* The loop of the score input handler that finds oldScore: the log is     *)
(* scanned from the tail (0-based index i) and the loop breaks at the      *)
(* first hit, which is the hit with the highest index.                     *)
findOldScore(h, team, set, isSquadScore) ==
    LET eventType == IF isSquadScore THEN "squad_score" ELSE "score"
        hits == {i \in 0..(Len(h) - 1) :
                    /\ h[i + 1].type = eventType
                    /\ h[i + 1].team = team
                    /\ (isSquadScore \/ h[i + 1].set = set)}
    IN  IF hits = {} THEN 0
        ELSE h[(CHOOSE i \in hits : \A j \in hits : j <= i) + 1].score

(* removeEventHistoryEvents that removes every hit *)
removeEventHistoryEvents_all(h, team, newScore, set) ==
    SelectSeq(h, LAMBDA event :
                 ~(/\ event.type = "score"
                   /\ event.team = team
                   /\ event.score > newScore
                   /\ event.set = set))

(* removeEventHistoryEvents that splices at the index of a failed search  *)
(* (-1: the last entry) when there is no hit                               *)
removeEventHistoryEvents_spliceLast(h, team, newScore, set) ==
    LET hits == {index \in 0..(Len(h) - 1) :
                    /\ h[Len(h) - index].type = "score"
                    /\ h[Len(h) - index].team = team
                    /\ h[Len(h) - index].score > newScore
                    /\ h[Len(h) - index].set = set}
    IN  IF hits = {} THEN SubSeq(h, 1, Len(h) - 1)
        ELSE spliceOne(h, Len(h) - 1 - (CHOOSE index \in hits : \A j \in hits : index <= j))

(* removeEventHistoryEvents: $.each over the reversed copy returns false   *)
(* at the first hit, the hit with the lowest reversed index `index`, which *)
(* is spliced out of the log at length - 1 - index.                        *)
removeEventHistoryEvents(h, team, newScore, set) ==
    LET hits == {index \in 0..(Len(h) - 1) :
                    /\ h[Len(h) - index].type = "score"
                    /\ h[Len(h) - index].team = team
                    /\ h[Len(h) - index].score > newScore
                    /\ h[Len(h) - index].set = set}
    IN  IF hits = {} THEN h
        ELSE spliceOne(h, Len(h) - 1 - (CHOOSE index \in hits : \A j \in hits : index <= j))

(* getLastResetIndex that stops at the first reset from the head *)
getLastResetIndex_first(h) ==
    IF \E i \in 1..Len(h) : h[i].type = "reset"
    THEN (CHOOSE i \in 1..Len(h) :
              h[i].type = "reset" /\ \A j \in 1..(i - 1) : h[j].type # "reset") - 1
    ELSE -1

(* getLastResetIndex: 0-based index of the last reset event, -1 if none *)
RECURSIVE lastResetFrom(_, _)
lastResetFrom(h, i) ==
    IF i >= Len(h) THEN -1
    ELSE IF h[Len(h) - i].type = "reset" THEN Len(h) - 1 - i
         ELSE lastResetFrom(h, i + 1)

getLastResetIndex(h) == lastResetFrom(h, 0)

(* getScoreHistory(set) on log h *)
historyFilter(event, set) ==
    /\ event.type = "score"
    /\ event.set = set
    /\ event.team # "-"
    /\ event.team \in STRING
    /\ TRUE     \* event.score !== undefined: a score event carries a score

scoreHistoryOf(h, set) ==
    LET startIndex == getLastResetIndex(h)
        slicedEventHistory == sliceFrom(h, startIndex + 1)
    IN  SelectSeq(slicedEventHistory, LAMBDA event : historyFilter(event, set))

getScoreHistory(set) == scoreHistoryOf(event_history, set)

-----------------------------------------------------------------------------
(* Set winner and overtime classifier *)

Null == "null"              \* JavaScript null
Undefined == "undefined"    \* JavaScript undefined
TypeError == "TypeError"    \* the call throws a TypeError

getScore(set, team) == score[set][team]

(* scoreHistoryToTeamPoints: the team's last known score after each event *)
RECURSIVE teamPointsFrom(_, _, _, _)
teamPointsFrom(history, i, team, lastScore) ==
    IF i > Len(history) THEN <<>>
    ELSE LET event == history[i]
             now == IF event.team = team THEN event.score ELSE lastScore
         IN  IF event.type = "score" /\ event.team # "-"
             THEN <<now>> \o teamPointsFrom(history, i + 1, team, now)
             ELSE teamPointsFrom(history, i + 1, team, lastScore)

scoreHistoryToTeamPoints(slicedEventHistory, team) ==
    teamPointsFrom(slicedEventHistory, 1, team, 0)

(* getScoreAtPointIndex: past the recorded history it is the current score *)
getScoreAtPointIndex(set, team, pointIndex) ==
    LET teamPointsList == scoreHistoryToTeamPoints(getScoreHistory(set), team)
    IN  IF pointIndex >= Len(teamPointsList) THEN getScore(set, team)
        ELSE teamPointsList[pointIndex + 1]

(* setWinner that asks for a margin above min_win_margin *)
setWinner_strictMargin(set) ==
    LET scoreA == getScore(set, "a")
        scoreB == getScore(set, "b")
        scoreDifference == IF scoreA >= scoreB THEN scoreA - scoreB
                           ELSE scoreB - scoreA
    IN  IF scoreA >= hardcap \/ scoreB >= hardcap
        THEN IF scoreA > scoreB THEN "a" ELSE "b"
        ELSE IF /\ (scoreA >= win_points \/ scoreB >= win_points)
                /\ scoreDifference > min_win_margin
             THEN IF scoreA > scoreB THEN "a" ELSE "b"
             ELSE Null

(* setWinner without the hardcap step *)
setWinner_noHardcap(set) ==
    LET scoreA == getScore(set, "a")
        scoreB == getScore(set, "b")
        scoreDifference == IF scoreA >= scoreB THEN scoreA - scoreB
                           ELSE scoreB - scoreA
    IN  IF /\ (scoreA >= win_points \/ scoreB >= win_points)
           /\ scoreDifference >= min_win_margin
        THEN IF scoreA > scoreB THEN "a" ELSE "b"
        ELSE Null

(* setWinner(set): "a", "b" or Null *)
setWinner(set) ==
    LET scoreA == getScore(set, "a")
        scoreB == getScore(set, "b")
        scoreDifference == IF scoreA >= scoreB THEN scoreA - scoreB
                           ELSE scoreB - scoreA
    IN  IF scoreA >= hardcap \/ scoreB >= hardcap
        THEN IF scoreA > scoreB THEN "a" ELSE "b"
        ELSE IF /\ (scoreA >= win_points \/ scoreB >= win_points)
                /\ scoreDifference >= min_win_margin
             THEN IF scoreA > scoreB THEN "a" ELSE "b"
             ELSE Null

(* getPlayedSets that also takes the active set *)
getPlayedSets_withActive == {i \in 0..(NumSets - 1) : i + 1 <= active_set}

(* getPlayedSets(): the indices i of the set elements with                *)
(* i + 1 < active_set; the page has one element per set.                   *)
getPlayedSets == {i \in 0..(NumSets - 1) : i + 1 < active_set}

(* getSetScore(team): $.each over the played sets, numbered from 0 *)
RECURSIVE getSetScoreFrom(_, _, _)
getSetScoreFrom(team, i, length) ==
    IF i >= length THEN 0
    ELSE (IF setWinner(i + 1) = team THEN 1 ELSE 0)
             + getSetScoreFrom(team, i + 1, length)

getSetScore(team) == getSetScoreFrom(team, 0, Cardinality(getPlayedSets))

(* isInOvertime that also counts a margin of exactly min_win_margin *)
isInOvertime_marginIncluded(set, pointIndex) ==
    LET scoreA == IF pointIndex = -1 THEN getScore(set, "a")
                  ELSE getScoreAtPointIndex(set, "a", pointIndex)
        scoreB == IF pointIndex = -1 THEN getScore(set, "b")
                  ELSE getScoreAtPointIndex(set, "b", pointIndex)
        scoreDifference == IF scoreA >= scoreB THEN scoreA - scoreB
                           ELSE scoreB - scoreA
    IN  IF scoreA >= hardcap \/ scoreB >= hardcap THEN TRUE
        ELSE IF scoreA >= win_points \/ scoreB >= win_points
             THEN scoreDifference <= min_win_margin
             ELSE FALSE

(* isInOvertime(set, pointIndex); pointIndex = -1 stands for pointIndex = null *)
isInOvertime(set, pointIndex) ==
    LET scoreA == IF pointIndex = -1 THEN getScore(set, "a")
                  ELSE getScoreAtPointIndex(set, "a", pointIndex)
        scoreB == IF pointIndex = -1 THEN getScore(set, "b")
                  ELSE getScoreAtPointIndex(set, "b", pointIndex)
        scoreDifference == IF scoreA >= scoreB THEN scoreA - scoreB
                           ELSE scoreB - scoreA
    IN  IF scoreA >= hardcap \/ scoreB >= hardcap THEN TRUE
        ELSE IF scoreA >= win_points \/ scoreB >= win_points
             THEN scoreDifference < min_win_margin
             ELSE FALSE

-----------------------------------------------------------------------------
(* Serve / receive rotation *)

getStartingServer(set) == starting_server[set]
getStartingReceiver(set) == starting_receiver[set]

getPlayerTeam(player) ==
    IF player = "a" \/ player = "b" THEN "a"
    ELSE IF player = "c" \/ player = "d" THEN "b"
    ELSE Null

(* The JavaScript % : the remainder has the sign of the dividend *)
jsRem(x, n) == IF x >= 0 THEN x % n ELSE -((-x) % n)

(* array[index] with a 0-based index; undefined outside the array *)
at(array, index) ==
    IF index >= 0 /\ index < Len(array) THEN array[index + 1] ELSE Undefined

(* Array.prototype.indexOf, 0-based, -1 if absent *)
indexOf(array, x) ==
    IF \E i \in 1..Len(array) : array[i] = x
    THEN (CHOOSE i \in 1..Len(array) :
              array[i] = x /\ \A j \in 1..(i - 1) : array[j] # x) - 1
    ELSE -1

(* The 8-way branch of getServingPlayerAtPoint; <<>> when no branch is taken *)
serveOrderOf(startingServer, startingReceiver) ==
    IF startingServer = "a" /\ startingReceiver = "c" THEN <<"a", "d", "b", "c">>
    ELSE IF startingServer = "a" /\ startingReceiver = "d" THEN <<"a", "c", "b", "d">>
    ELSE IF startingServer = "b" /\ startingReceiver = "c" THEN <<"b", "d", "a", "c">>
    ELSE IF startingServer = "b" /\ startingReceiver = "d" THEN <<"b", "c", "a", "d">>
    ELSE IF startingServer = "c" /\ startingReceiver = "a" THEN <<"c", "b", "d", "a">>
    ELSE IF startingServer = "c" /\ startingReceiver = "b" THEN <<"c", "a", "d", "b">>
    ELSE IF startingServer = "d" /\ startingReceiver = "a" THEN <<"d", "b", "c", "a">>
    ELSE IF startingServer = "d" /\ startingReceiver = "b" THEN <<"d", "a", "c", "b">>
    ELSE <<>>

(* The 8-way branch of getReceivingPlayerAtPoint *)
receivingOrderOf(startingServer, startingReceiver) ==
    IF startingServer = "a" /\ startingReceiver = "c"
    THEN <<"c", "b", "a", "c", "d", "a", "b", "d">>
    ELSE IF startingServer = "a" /\ startingReceiver = "d"
    THEN <<"d", "b", "a", "d", "c", "a", "b", "c">>
    ELSE IF startingServer = "b" /\ startingReceiver = "c"
    THEN <<"c", "a", "b", "c", "d", "b", "a", "d">>
    ELSE IF startingServer = "b" /\ startingReceiver = "d"
    THEN <<"d", "a", "b", "d", "c", "b", "a", "c">>
    ELSE IF startingServer = "c" /\ startingReceiver = "a"
    THEN <<"a", "d", "c", "a", "b", "c", "d", "b">>
    ELSE IF startingServer = "c" /\ startingReceiver = "b"
    THEN <<"b", "d", "c", "b", "a", "c", "d", "a">>
    ELSE IF startingServer = "d" /\ startingReceiver = "a"
    THEN <<"a", "c", "d", "a", "b", "d", "c", "b">>
    ELSE IF startingServer = "d" /\ startingReceiver = "b"
    THEN <<"b", "c", "d", "b", "a", "d", "c", "a">>
    ELSE <<>>

overtimeOrder15Of(startingServer, startingReceiver) ==
    IF startingServer = "a" /\ startingReceiver = "c" THEN <<"a", "d", "b", "c">>
    ELSE IF startingServer = "a" /\ startingReceiver = "d" THEN <<"a", "c", "b", "d">>
    ELSE IF startingServer = "b" /\ startingReceiver = "c" THEN <<"b", "d", "a", "c">>
    ELSE IF startingServer = "b" /\ startingReceiver = "d" THEN <<"b", "c", "a", "d">>
    ELSE IF startingServer = "c" /\ startingReceiver = "a" THEN <<"c", "b", "d", "a">>
    ELSE IF startingServer = "c" /\ startingReceiver = "b" THEN <<"c", "a", "d", "b">>
    ELSE IF startingServer = "d" /\ startingReceiver = "a" THEN <<"d", "b", "c", "a">>
    ELSE IF startingServer = "d" /\ startingReceiver = "b" THEN <<"d", "a", "c", "b">>
    ELSE <<>>

overtimeOrder21Of(startingServer, startingReceiver) ==
    IF startingServer = "a" /\ startingReceiver = "c" THEN <<"b", "d", "a", "c">>
    ELSE IF startingServer = "a" /\ startingReceiver = "d" THEN <<"b", "c", "a", "d">>
    ELSE IF startingServer = "b" /\ startingReceiver = "c" THEN <<"a", "d", "b", "c">>
    ELSE IF startingServer = "b" /\ startingReceiver = "d" THEN <<"a", "c", "b", "d">>
    ELSE IF startingServer = "c" /\ startingReceiver = "a" THEN <<"d", "b", "c", "a">>
    ELSE IF startingServer = "c" /\ startingReceiver = "b" THEN <<"d", "a", "c", "b">>
    ELSE IF startingServer = "d" /\ startingReceiver = "a" THEN <<"c", "b", "d", "a">>
    ELSE IF startingServer = "d" /\ startingReceiver = "b" THEN <<"c", "a", "d", "b">>
    ELSE <<>>

(* The normal steps without the single serve on the opening point *)
normalServeSteps_noLead(pointIndex) == (pointIndex % 8) \div 2

(* Math.floor(((pointIndex + 1) / 2) % 4), pointIndex >= 0: the halves are  *)
(* kept exact by working with twice the value, ((pointIndex + 1) % 8) / 2.  *)
normalServeSteps(pointIndex) == ((pointIndex + 1) % 8) \div 2

(* The overtime steps realigned at win_points * 2 *)
overtimeServeSteps_fromWinPoints(pointIndex) ==
    LET pointsTillOvertime == win_points * 2
        twiceFirst == jsRem(pointsTillOvertime + 1, 8)
        second == jsRem(pointIndex - pointsTillOvertime, 4)
        twiceSum == jsRem(twiceFirst + 2 * second, 8)
    IN  twiceSum \div 2

(* Math.floor(((((pointsTillOvertime + 1) / 2) % 4)                        *)
(*             + (pointIndex - pointsTillOvertime) % 4) % 4), in twice the *)
(* value; \div rounds down, as Math.floor does.                            *)
overtimeServeSteps(pointIndex) ==
    LET pointsTillOvertime == win_points * 2 - 2
        twiceFirst == jsRem(pointsTillOvertime + 1, 8)
        second == jsRem(pointIndex - pointsTillOvertime, 4)
        twiceSum == jsRem(twiceFirst + 2 * second, 8)
    IN  twiceSum \div 2

(* getServingPlayerAtPoint without the early return at pointIndex 0 *)
getServingPlayerAtPoint_noShortcut(pointIndex, set) ==
    LET startingServer == getStartingServer(set)
        startingReceiver == getStartingReceiver(set)
        isOvertime == isInOvertime(set, pointIndex)
        serveOrder == serveOrderOf(startingServer, startingReceiver)
        startIndex == indexOf(serveOrder, startingServer)
        steps == IF ~isOvertime THEN normalServeSteps(pointIndex)
                 ELSE overtimeServeSteps(pointIndex)
    IN  IF serveOrder = <<>> THEN TypeError
        ELSE at(serveOrder, jsRem(startIndex + steps, 4))

(* getServingPlayerAtPoint(pointIndex, set).  With no branch taken          *)
(* serveOrder is undefined and serveOrder.indexOf throws.                   *)
getServingPlayerAtPoint(pointIndex, set) ==
    LET startingServer == getStartingServer(set)
        startingReceiver == getStartingReceiver(set)
        isOvertime == isInOvertime(set, pointIndex)
        serveOrder == serveOrderOf(startingServer, startingReceiver)
        startIndex == indexOf(serveOrder, startingServer)
        steps == IF ~isOvertime THEN normalServeSteps(pointIndex)
                 ELSE overtimeServeSteps(pointIndex)
    IN  IF serveOrder = <<>> THEN TypeError
        ELSE IF pointIndex = 0 THEN startingServer
        ELSE at(serveOrder, jsRem(startIndex + steps, 4))

(* getReceivingPlayerAtPoint that steps through the first half of the     *)
(* receiving order only                                                    *)
getReceivingPlayerAtPoint_halfCycle(pointIndex, set) ==
    LET startingServer == getStartingServer(set)
        startingReceiver == getStartingReceiver(set)
        isOvertime == isInOvertime(set, pointIndex)
        receivingOrder == receivingOrderOf(startingServer, startingReceiver)
        overtimeOrder15 == overtimeOrder15Of(startingServer, startingReceiver)
        overtimeOrder21 == overtimeOrder21Of(startingServer, startingReceiver)
        startIndex == indexOf(receivingOrder, startingReceiver)
    IN  IF receivingOrder = <<>> THEN TypeError
        ELSE IF pointIndex = 0 THEN startingReceiver
        ELSE IF ~isOvertime
             THEN at(receivingOrder, jsRem(startIndex + jsRem(pointIndex, 4), 8))
             ELSE LET steps == jsRem(pointIndex - 1, 4)
                  IN  IF win_points = 15
                      THEN at(overtimeOrder15, jsRem(startIndex + steps, 4))
                      ELSE at(overtimeOrder21, jsRem(startIndex + steps, 4))

(* getReceivingPlayerAtPoint(pointIndex, set) *)
getReceivingPlayerAtPoint(pointIndex, set) ==
    LET startingServer == getStartingServer(set)
        startingReceiver == getStartingReceiver(set)
        isOvertime == isInOvertime(set, pointIndex)
        receivingOrder == receivingOrderOf(startingServer, startingReceiver)
        overtimeOrder15 == overtimeOrder15Of(startingServer, startingReceiver)
        overtimeOrder21 == overtimeOrder21Of(startingServer, startingReceiver)
        startIndex == indexOf(receivingOrder, startingReceiver)
    IN  IF receivingOrder = <<>> THEN TypeError
        ELSE IF pointIndex = 0 THEN startingReceiver
        ELSE IF ~isOvertime
             THEN at(receivingOrder, jsRem(startIndex + jsRem(pointIndex, 8), 8))
             ELSE LET steps == jsRem(pointIndex - 1, 4)
                  IN  IF win_points = 15
                      THEN at(overtimeOrder15, jsRem(startIndex + steps, 4))
                      ELSE at(overtimeOrder21, jsRem(startIndex + steps, 4))

(* getStartingTeam(set): the team of the starting server, Null if not set *)
getStartingTeam(set) ==
    LET startingServer == getStartingServer(set)
    IN  IF startingServer # ""
        THEN (IF startingServer = "a" \/ startingServer = "b" THEN "a" ELSE "b")
        ELSE Null

getTotalPointsInSet(set) == getScore(set, "a") + getScore(set, "b")

(* getServeInfo that counts the serves of a turn from point 0 *)
getServeInfo_noLead ==
    LET startingTeam == getStartingTeam(active_set)
        otherTeam == IF startingTeam = "a" THEN "b" ELSE "a"
        totalPoints == getTotalPointsInSet(active_set)
        isOvertime == isInOvertime(active_set, -1)
    IN  IF startingTeam = Null THEN Null
        ELSE IF isOvertime
        THEN [team |-> IF jsRem(totalPoints, 2) = 0 THEN startingTeam ELSE otherTeam,
              serveNumber |-> 1, isOvertime |-> TRUE]
        ELSE LET serveGroup == totalPoints \div 2
             IN  [team |-> IF jsRem(serveGroup, 2) = 0 THEN startingTeam ELSE otherTeam,
                  serveNumber |-> jsRem(totalPoints, 2) + 1,
                  isOvertime |-> FALSE]

(* getServeInfo(): the serving team and the serve number of the active set *)
getServeInfo ==
    LET startingTeam == getStartingTeam(active_set)
        otherTeam == IF startingTeam = "a" THEN "b" ELSE "a"
        totalPoints == getTotalPointsInSet(active_set)
        isOvertime == isInOvertime(active_set, -1)
    IN  IF startingTeam = Null THEN Null
        ELSE IF isOvertime
        THEN [team |-> IF jsRem(totalPoints, 2) = 0 THEN startingTeam ELSE otherTeam,
              serveNumber |-> 1, isOvertime |-> TRUE]
        ELSE IF totalPoints = 0
        THEN [team |-> startingTeam, serveNumber |-> 1, isOvertime |-> FALSE]
        ELSE LET servesAfterFirst == totalPoints - 1
                 serveGroup == servesAfterFirst \div 2
                 isStartingTeamServe == jsRem(serveGroup, 2) = 0
             IN  [team |-> IF isStartingTeamServe THEN otherTeam ELSE startingTeam,
                  serveNumber |-> jsRem(servesAfterFirst, 2) + 1,
                  isOvertime |-> FALSE]

-----------------------------------------------------------------------------
(* Match statistics *)

ZeroTeamStats == [breaks |-> 0, breakOpportunities |-> 0, breakPercentage |-> 0]

ZeroPlayerStats ==
    [sideouts |-> 0, sideoutOpportunities |-> 0, breaks |-> 0,
     breakOpportunities |-> 0, sideoutPercentage |-> 0, breakPercentage |-> 0]

ZeroStats ==
    [teamA |-> ZeroTeamStats, teamB |-> ZeroTeamStats,
     players |-> [player \in Players |-> ZeroPlayerStats]]

(* scoreEvents.forEach((event, index) => push({event, index, set: event.set})) *)
indexedEvents(scoreEvents) ==
    [i \in 1..Len(scoreEvents) |->
        [event |-> scoreEvents[i], index |-> i - 1, set |-> scoreEvents[i].set]]

(* type 'game': the score events since the last reset, grouped by set;     *)
(* Object.keys lists the integer keys of eventsBySet in ascending order.   *)
RECURSIVE gameEventsFrom(_, _)
gameEventsFrom(scoreEvents, setKey) ==
    IF setKey > NumSets THEN <<>>
    ELSE indexedEvents(SelectSeq(scoreEvents, LAMBDA event : event.set = setKey))
             \o gameEventsFrom(scoreEvents, setKey + 1)

(* eventsToProcess that takes the events of every set for a single set *)
eventsToProcess_allSets(type, set) ==
    gameEventsFrom(
        SelectSeq(sliceFrom(event_history, getLastResetIndex(event_history) + 1),
                  LAMBDA event : event.type = "score"),
        1)

(* eventsToProcess that numbers the events of a game across the sets *)
eventsToProcess_globalIndex(type, set) ==
    IF type = "game"
    THEN indexedEvents(
             SelectSeq(sliceFrom(event_history, getLastResetIndex(event_history) + 1),
                       LAMBDA event : event.type = "score"))
    ELSE indexedEvents(getScoreHistory(set))

eventsToProcess(type, set) ==
    IF type = "game"
    THEN gameEventsFrom(
             SelectSeq(sliceFrom(event_history, getLastResetIndex(event_history) + 1),
                       LAMBDA event : event.type = "score"),
             1)
    ELSE indexedEvents(getScoreHistory(set))

(* An entry on which the body of eventsToProcess.forEach throws:           *)
(* servingTeam is null for a server that is not a player and               *)
(* servingTeam.toUpperCase() is a TypeError, as is the increment on        *)
(* stats.players[receivingPlayer] for a receiver that is not a player; the *)
(* two rotation queries throw themselves on an invalid configuration.      *)
eventThrows(item) ==
    \/ getServingPlayerAtPoint(item.index, item.set) \notin Players
    \/ getReceivingPlayerAtPoint(item.index, item.set) \notin Players

(* The body of forEach that credits a break to the receiver *)
countEvent_breakToReceiver(stats, item) ==
    LET team == item.event.team
        servingPlayer == getServingPlayerAtPoint(item.index, item.set)
        receivingPlayer == getReceivingPlayerAtPoint(item.index, item.set)
        servingTeam == getPlayerTeam(servingPlayer)
        isBreak == team = servingTeam
        teamKey(t) == IF t = "a" THEN "teamA" ELSE "teamB"
        opportunities ==
            [stats EXCEPT
                ![teamKey(servingTeam)].breakOpportunities = @ + 1,
                !.players[servingPlayer].breakOpportunities = @ + 1]
        withReceiver ==
            [opportunities EXCEPT
                !.players[receivingPlayer].sideoutOpportunities = @ + 1]
    IN  IF isBreak
        THEN [withReceiver EXCEPT
                 ![teamKey(team)].breaks = @ + 1,
                 !.players[receivingPlayer].breaks = @ + 1]
        ELSE [withReceiver EXCEPT !.players[receivingPlayer].sideouts = @ + 1]

(* The body of forEach that counts a break as a sideout as well *)
countEvent_breakAlsoSideout(stats, item) ==
    LET team == item.event.team
        servingPlayer == getServingPlayerAtPoint(item.index, item.set)
        receivingPlayer == getReceivingPlayerAtPoint(item.index, item.set)
        servingTeam == getPlayerTeam(servingPlayer)
        isBreak == team = servingTeam
        teamKey(t) == IF t = "a" THEN "teamA" ELSE "teamB"
        opportunities ==
            [stats EXCEPT
                ![teamKey(servingTeam)].breakOpportunities = @ + 1,
                !.players[servingPlayer].breakOpportunities = @ + 1]
        withReceiver ==
            [opportunities EXCEPT
                !.players[receivingPlayer].sideoutOpportunities = @ + 1,
                !.players[receivingPlayer].sideouts = @ + 1]
    IN  IF isBreak
        THEN [withReceiver EXCEPT
                 ![teamKey(team)].breaks = @ + 1,
                 !.players[servingPlayer].breaks = @ + 1]
        ELSE withReceiver

(* The body of eventsToProcess.forEach on one entry that does not throw *)
countEvent(stats, item) ==
    LET team == item.event.team
        servingPlayer == getServingPlayerAtPoint(item.index, item.set)
        receivingPlayer == getReceivingPlayerAtPoint(item.index, item.set)
        servingTeam == getPlayerTeam(servingPlayer)
        isBreak == team = servingTeam
        teamKey(t) == IF t = "a" THEN "teamA" ELSE "teamB"
        opportunities ==
            [stats EXCEPT
                ![teamKey(servingTeam)].breakOpportunities = @ + 1,
                !.players[servingPlayer].breakOpportunities = @ + 1]
        withReceiver ==
            [opportunities EXCEPT
                !.players[receivingPlayer].sideoutOpportunities = @ + 1]
    IN  IF isBreak
        THEN [withReceiver EXCEPT
                 ![teamKey(team)].breaks = @ + 1,
                 !.players[servingPlayer].breaks = @ + 1]
        ELSE [withReceiver EXCEPT !.players[receivingPlayer].sideouts = @ + 1]

RECURSIVE countEventsFrom(_, _, _)
countEventsFrom(stats, items, i) ==
    IF i > Len(items) THEN stats
    ELSE countEventsFrom(countEvent(stats, items[i]), items, i + 1)

(* The percentage cut off instead of rounded *)
roundPercent_floor(count, opportunities) == (100 * count) \div opportunities

(* Math.round((count / opportunities) * 100): halves round up *)
roundPercent(count, opportunities) ==
    (200 * count + opportunities) \div (2 * opportunities)

percentage(count, opportunities) ==
    IF opportunities > 0 THEN roundPercent(count, opportunities) ELSE 0

withPercentages(stats) ==
    [teamA |-> [stats.teamA EXCEPT !.breakPercentage =
                    percentage(stats.teamA.breaks, stats.teamA.breakOpportunities)],
     teamB |-> [stats.teamB EXCEPT !.breakPercentage =
                    percentage(stats.teamB.breaks, stats.teamB.breakOpportunities)],
     players |-> [player \in Players |->
                    LET playerStats == stats.players[player]
                    IN  [playerStats EXCEPT
                            !.sideoutPercentage =
                                percentage(playerStats.sideouts,
                                           playerStats.sideoutOpportunities),
                            !.breakPercentage =
                                percentage(playerStats.breaks,
                                           playerStats.breakOpportunities)]]]

(* calculateStatistics(type, set) throws on the first entry that throws *)
statisticsThrow(type, set) ==
    LET items == eventsToProcess(type, set)
    IN  \E i \in 1..Len(items) : eventThrows(items[i])

(* calculateStatistics(type, set), type "game" or "set" *)
calculateStatistics(type, set) ==
    IF statisticsThrow(type, set) THEN TypeError
    ELSE withPercentages(countEventsFrom(ZeroStats, eventsToProcess(type, set), 1))

-----------------------------------------------------------------------------
(* Handlers registered by initEventListeners *)

ZeroScores == [s \in Sets |-> [t \in Teams |-> 0]]

(* updateCurrentPlayersDisplay asks the two rotation queries for the     *)
(* active set and has no try/catch: it throws when they throw, which is    *)
(* when the starting server and receiver of the active set (empty for a    *)
(* set that has no field) take none of the eight branches.                 *)
updateCurrentPlayersDisplayThrows ==
    \/ active_set \notin Sets
    \/ serveOrderOf(getStartingServer(active_set),
                    getStartingReceiver(active_set)) = <<>>

(* What a handler's uploadData writes: nothing for a user who is not      *)
(* authorised, else one batch with the trimmed log and the values of the   *)
(* elements passed.  A field is [name, set, team, value].                  *)
ScoreField(set, team, value) ==
    [name |-> "score", set |-> set, team |-> team, value |-> value]
SquadScoreField(team, value) ==
    [name |-> "squad_score", set |-> 0, team |-> team, value |-> value]
ActiveSetField(value) ==
    [name |-> "active_set", set |-> 0, team |-> "-", value |-> value]

NothingWritten == [wrote |-> FALSE, log |-> <<>>, fields |-> {}]

(* A batch built before the handler changed the log *)
writtenBatch_staleLog(h, fields) ==
    IF ~authorized THEN NothingWritten
    ELSE [wrote |-> TRUE, log |-> handleEventHistory(event_history),
          fields |-> fields]

writtenBatch(h, fields) ==
    IF ~authorized THEN NothingWritten
    ELSE [wrote |-> TRUE, log |-> handleEventHistory(h), fields |-> fields]

(* The tail of the score input handler: updateCurrentPlayersDisplay(),    *)
(* then uploadData([$target]), which is not reached when the first throws. *)
uploadAfterDisplay(h) ==
    IF updateCurrentPlayersDisplayThrows THEN h ELSE uploadData(h)

(* Score input handler.  The field of (set, team) already holds newScore;  *)
(* a squad score field has no set (set = 0) and is not part of `score`.    *)
(* last.threw: the handler ended in the TypeError of the display update.   *)
ScoreInput(team, set, newScore, isSquadScore) ==
    LET oldScore == findOldScore(event_history, team, set, isSquadScore)
        edited ==
            IF newScore < oldScore /\ ~isSquadScore
            THEN removeEventHistoryEvents(event_history, team, newScore, set)
            ELSE Append(event_history,
                        IF isSquadScore THEN SquadEvent(team, newScore)
                        ELSE ScoreEvent(team, set, newScore))
    IN  /\ event_history' = uploadAfterDisplay(edited)
        /\ score' = IF isSquadScore THEN score
                    ELSE [score EXCEPT ![set][team] = newScore]
        /\ last' = [op |-> "scoreInput", team |-> team, set |-> set,
                    newScore |-> newScore, oldScore |-> oldScore,
                    isSquadScore |-> isSquadScore,
                    threw |-> updateCurrentPlayersDisplayThrows,
                    written |->
                        IF updateCurrentPlayersDisplayThrows THEN NothingWritten
                        ELSE writtenBatch(edited,
                                 {IF isSquadScore THEN SquadScoreField(team, newScore)
                                  ELSE ScoreField(set, team, newScore)})]
        /\ UNCHANGED <<active_set, set_counter, win_points, hardcap, starting_server,
                       starting_receiver, authorized>>

(* Score change buttons handler: the score field of the set shown as      *)
(* active (the class set by the last updateSets) is changed and its input  *)
(* handler triggered, unless the result is negative.  When no set is shown *)
(* as active the field value is undefined, currentScore is NaN and the     *)
(* comparison is false.                                                    *)
ScoreButton(team, change) ==
    IF set_counter \in Sets /\ score[set_counter][team] + change >= 0
    THEN ScoreInput(team, set_counter, score[set_counter][team] + change, FALSE)
    ELSE /\ last' = [op |-> "scoreButtonIgnored", team |-> team,
                     change |-> change]
         /\ UNCHANGED <<event_history, score, active_set, set_counter,
                        win_points, hardcap, starting_server,
                        starting_receiver, authorized>>

(* Set change buttons handler, with the set counter input handler that it  *)
(* triggers (updateSets; push of the set event) and the upload.            *)
SetChangeButton(change) ==
    LET currentSet == set_counter
        newSet == currentSet + change
    IN  IF newSet > 0 /\ newSet <= NumSets
        THEN /\ active_set' = newSet
             /\ set_counter' = newSet
             /\ event_history' = uploadData(Append(event_history, SetEvent(newSet)))
             /\ last' = [op |-> "setChange", change |-> change, set |-> newSet,
                         written |->
                             writtenBatch(Append(event_history, SetEvent(newSet)),
                                          {ActiveSetField(newSet)})]
             /\ UNCHANGED <<score, win_points, hardcap, starting_server,
                            starting_receiver, authorized>>
        ELSE /\ last' = [op |-> "setChangeIgnored", change |-> change]
             /\ UNCHANGED <<event_history, score, active_set, set_counter,
                            win_points, hardcap, starting_server,
                            starting_receiver, authorized>>

(* Reset scores button handler that pushes onto the log it finds *)
ResetScores_appends ==
    /\ score' = ZeroScores
    /\ active_set' = 1
    /\ set_counter' = 1
    /\ event_history' = uploadData(Append(event_history, ResetEvent))
    /\ last' = [op |-> "reset", before |-> Len(event_history),
                written |->
                    writtenBatch(Append(event_history, ResetEvent),
                                 {ScoreField(s, t, 0) : s \in Sets, t \in Teams}
                                     \cup {ActiveSetField(1)})]
    /\ UNCHANGED <<win_points, hardcap, starting_server, starting_receiver,
                   authorized>>

(* Reset scores button handler: the log is replaced by an empty array and  *)
(* the reset event pushed onto it; last.before is the length it had.       *)
(* uploadData() writes every field; those the model holds are listed.      *)
ResetScores ==
    /\ score' = ZeroScores
    /\ active_set' = 1
    /\ set_counter' = 1
    /\ event_history' = uploadData(Append(<<>>, ResetEvent))
    /\ last' = [op |-> "reset", before |-> Len(event_history),
                written |->
                    writtenBatch(Append(<<>>, ResetEvent),
                                 {ScoreField(s, t, 0) : s \in Sets, t \in Teams}
                                     \cup {ActiveSetField(1)})]
    /\ UNCHANGED <<win_points, hardcap, starting_server, starting_receiver,
                   authorized>>

(* The 300 ms refresh: of updateUI, updateSets shows active_set in the    *)
(* set counter and handleEventHistory trims the log.                       *)
UpdateUI ==
    /\ set_counter' = active_set
    /\ event_history' = handleEventHistory(event_history)
    /\ last' = [op |-> "updateUI"]
    /\ UNCHANGED <<score, active_set, win_points, hardcap, starting_server,
                   starting_receiver, authorized>>

(* Winning score handler and hardcap score handler *)
WinPointsInput(value) ==
    /\ win_points' = value
    /\ last' = [op |-> "winPointsInput", value |-> value]
    /\ UNCHANGED <<event_history, score, active_set, set_counter, hardcap, starting_server,
                   starting_receiver, authorized>>

HardcapInput(value) ==
    /\ hardcap' = value
    /\ last' = [op |-> "hardcapInput", value |-> value]
    /\ UNCHANGED <<event_history, score, active_set, set_counter, win_points,
                   starting_server, starting_receiver, authorized>>

-----------------------------------------------------------------------------
(* The batch that uploadData(elemList) hands to writeData.  An element is  *)
(* [path, value]: its fb-data attribute and the text val() returns, a      *)
(* sequence of characters.  A value of the batch is an integer, NaN, a     *)
(* text or the event log.                                                  *)

IntValue(n) == [kind |-> "int", n |-> n, text |-> <<>>, log |-> <<>>]
NaNValue == [kind |-> "NaN", n |-> 0, text |-> <<>>, log |-> <<>>]
TextValue(text) == [kind |-> "text", n |-> 0, text |-> text, log |-> <<>>]
LogValue(h) == [kind |-> "log", n |-> 0, text |-> <<>>, log |-> h]

Digits == <<"0", "1", "2", "3", "4", "5", "6", "7", "8", "9">>
isDigit(c) == \E d \in 1..10 : Digits[d] = c
digitValue(c) == (CHOOSE d \in 1..10 : Digits[d] = c) - 1

(* Value of the decimal digits text[from..to] *)
RECURSIVE digitsValue(_, _, _)
digitsValue(text, from, to) ==
    IF to < from THEN 0
    ELSE 10 * digitsValue(text, from, to - 1) + digitValue(text[to])

(* parseInt(text): leading blanks are skipped, then an optional sign, then *)
(* the longest run of decimal digits is read; NaN when that run is empty.  *)
(* It returns and never throws.                                            *)
parseInt(text) ==
    LET n == Len(text)
        start == IF \E i \in 1..n : text[i] # " "
                 THEN CHOOSE i \in 1..n :
                          text[i] # " " /\ \A j \in 1..(i - 1) : text[j] = " "
                 ELSE n + 1
        signed == start <= n /\ text[start] \in {"-", "+"}
        from == IF signed THEN start + 1 ELSE start
        to == IF \E i \in from..n : ~isDigit(text[i])
              THEN (CHOOSE i \in from..n :
                        ~isDigit(text[i]) /\ \A j \in from..(i - 1) : isDigit(text[j])) - 1
              ELSE n
        magnitude == digitsValue(text, from, to)
    IN  IF to < from THEN NaNValue
        ELSE IntValue(IF signed /\ text[start] = "-" THEN 0 - magnitude ELSE magnitude)

(* The fb-data attributes uploaded, and String.prototype.includes on them  *)
(* for the four words uploadData looks for                                 *)
ScorePath == "score.set_1.team_a.score"
ServerPath == "score.set_1.starting_server"
NamePath == "teams_info.team_a.name"
ActiveSetPath == "active_set"
EventHistoryPath == "event_history"

pathIncludes(path, word) ==
    \/ word = "score" /\ path \in {ScorePath, ServerPath}
    \/ word = "active_set" /\ path = ActiveSetPath
    \/ word = "starting_server" /\ path = ServerPath

convertsToInteger(path) ==
    /\ (pathIncludes(path, "score") \/ pathIncludes(path, "active_set"))
    /\ ~pathIncludes(path, "starting_server")
    /\ ~pathIncludes(path, "starting_receiver")
    /\ ~pathIncludes(path, "admin_settings")

(* The value written for an element: try { parseInt } never reaches catch *)
finalValue(elem) ==
    IF convertsToInteger(elem.path) THEN parseInt(elem.value)
    ELSE TextValue(elem.value)

(* An element that the loop leaves out of newData: only the catch branch   *)
(* returns early, and parseInt does not throw.                             *)
skipsElement(elem) == FALSE

(* newData: the event log, then one entry per element, a later element of  *)
(* the same path replacing the earlier one.  Nothing is written for a user *)
(* who is not authorised for the channel (wrote = FALSE).                  *)
uploadBatch(h, elemList) ==
    LET written == {i \in 1..Len(elemList) : ~skipsElement(elemList[i])}
        paths == {elemList[i].path : i \in written}
        lastOf(path) == CHOOSE i \in written :
                            /\ elemList[i].path = path
                            /\ \A j \in written : elemList[j].path = path => j <= i
    IN  [path \in paths \cup {EventHistoryPath} |->
            IF path = EventHistoryPath THEN LogValue(handleEventHistory(h))
            ELSE finalValue(elemList[lastOf(path)])]

(* uploadData(elemList) *)
UploadData(elemList) ==
    /\ event_history' = uploadData(event_history)
    /\ last' = [op |-> "uploadData", elemList |-> elemList,
                wrote |-> authorized,
                batch |-> IF authorized THEN uploadBatch(event_history, elemList)
                          ELSE <<>>]
    /\ UNCHANGED <<score, active_set, set_counter, win_points, hardcap,
                   starting_server, starting_receiver, authorized>>

-----------------------------------------------------------------------------
(* processDataAndUpdateFields.  `data` is the list of paths and values of  *)
(* a snapshot: the path event_history is absent, holds an array, or holds  *)
(* a value that is not an array; the paths active_set and score.* are      *)
(* present or not.                                                         *)

(* The event_history branch without the Array.isArray test *)
loadedEventHistory_unchecked(data, h) ==
    IF data.log_kind = "absent" THEN h ELSE data.log

(* The event_history branch: runs only for a path of that name *)
loadedEventHistory(data, h) ==
    IF data.log_kind = "absent" THEN h
    ELSE IF data.log_kind = "array" THEN data.log
    ELSE <<>>

(* The active_set branch with the range test of the set change buttons *)
loadedActiveSet_checked(data, set) ==
    IF data.has_active_set /\ data.active_set > 0 /\ data.active_set <= NumSets
    THEN data.active_set ELSE set

(* The active_set branch: the value is stored as it comes *)
loadedActiveSet(data, set) ==
    IF data.has_active_set THEN data.active_set ELSE set

(* The last branch for the score fields: setElementValue *)
loadedScore(data, table) ==
    IF data.has_score THEN data.score ELSE table

processDataAndUpdateFields(data) ==
    /\ event_history' = loadedEventHistory(data, event_history)
    /\ active_set' = loadedActiveSet(data, active_set)
    /\ score' = loadedScore(data, score)
    /\ last' = [op |-> "processData", data |-> data,
                before |-> Len(event_history)]
    /\ UNCHANGED <<set_counter, win_points, hardcap, starting_server,
                   starting_receiver, authorized>>

(* A call of removeEventHistoryEvents(team, newScore, set); last.before is *)
(* the log it was called on.                                               *)
RemoveEventHistoryEvents(team, newScore, set) ==
    /\ event_history' = removeEventHistoryEvents(event_history, team, newScore, set)
    /\ last' = [op |-> "removeEventHistoryEvents", team |-> team,
                newScore |-> newScore, set |-> set, before |-> event_history]
    /\ UNCHANGED <<score, active_set, set_counter, win_points, hardcap,
                   starting_server, starting_receiver, authorized>>

-----------------------------------------------------------------------------
(* Calls of the queries; the return value is recorded in last.val *)

(* getScoreHistory that cuts the log with splice instead of slice *)
CallGetScoreHistory_splice(set) ==
    /\ last' = [op |-> "getScoreHistory", set |-> set, val |-> getScoreHistory(set)]
    /\ event_history' = SubSeq(event_history, 1, getLastResetIndex(event_history) + 1)
    /\ UNCHANGED <<score, active_set, set_counter, win_points, hardcap,
                   starting_server, starting_receiver, authorized>>

CallGetScoreHistory(set) ==
    /\ last' = [op |-> "getScoreHistory", set |-> set, val |-> getScoreHistory(set)]
    /\ UNCHANGED <<event_history, score, active_set, set_counter, win_points, hardcap,
                 starting_server, starting_receiver, authorized>>

CallSetWinner(set) ==
    /\ last' = [op |-> "setWinner", set |-> set, val |-> setWinner(set)]
    /\ UNCHANGED <<event_history, score, active_set, set_counter, win_points, hardcap,
                 starting_server, starting_receiver, authorized>>

CallGetSetScore(team) ==
    /\ last' = [op |-> "getSetScore", team |-> team, val |-> getSetScore(team)]
    /\ UNCHANGED <<event_history, score, active_set, set_counter, win_points, hardcap,
                 starting_server, starting_receiver, authorized>>

CallIsInOvertime(set) ==
    /\ last' = [op |-> "isInOvertime", set |-> set, val |-> isInOvertime(set, -1)]
    /\ UNCHANGED <<event_history, score, active_set, set_counter, win_points, hardcap,
                 starting_server, starting_receiver, authorized>>

CallCalculateStatistics(type, set) ==
    /\ last' = [op |-> "calculateStatistics", type |-> type, set |-> set,
                threw |-> statisticsThrow(type, set),
                val |-> calculateStatistics(type, set)]
    /\ UNCHANGED <<event_history, score, active_set, set_counter, win_points, hardcap,
                   starting_server, starting_receiver, authorized>>

CallGetServeInfo ==
    /\ last' = [op |-> "getServeInfo", val |-> getServeInfo]
    /\ UNCHANGED <<event_history, score, active_set, set_counter, win_points, hardcap,
                   starting_server, starting_receiver, authorized>>

CallGetServingPlayerAtPoint(pointIndex, set) ==
    /\ last' = [op |-> "getServingPlayerAtPoint", pointIndex |-> pointIndex,
                set |-> set, val |-> getServingPlayerAtPoint(pointIndex, set)]
    /\ UNCHANGED <<event_history, score, active_set, set_counter, win_points, hardcap,
                 starting_server, starting_receiver, authorized>>

CallGetReceivingPlayerAtPoint(pointIndex, set) ==
    /\ last' = [op |-> "getReceivingPlayerAtPoint", pointIndex |-> pointIndex,
                set |-> set, val |-> getReceivingPlayerAtPoint(pointIndex, set)]
    /\ UNCHANGED <<event_history, score, active_set, set_counter, win_points, hardcap,
                 starting_server, starting_receiver, authorized>>

-----------------------------------------------------------------------------
(* Spec: the edit handlers from the state after construction, explored     *)
(* while the log is short.                                                 *)

Init ==
    /\ event_history = <<>>
    /\ score = ZeroScores
    /\ active_set = 1
    /\ set_counter = 1
    /\ win_points = DefaultWinPoints
    /\ hardcap = DefaultHardcap
    /\ starting_server = [s \in Sets |-> ""]
    /\ starting_receiver = [s \in Sets |-> ""]
    /\ authorized = TRUE
    /\ last = [op |-> "init"]

ShortLog == Len(event_history) < MaxLog

TypeScore ==
    \E team \in Teams, set \in EditSets, newScore \in TypedScores :
        ShortLog /\ ScoreInput(team, set, newScore, FALSE)

TypeSquadScore ==
    \E team \in SquadTeams, newScore \in SquadScores :
        ShortLog /\ ScoreInput(team, 0, newScore, TRUE)

(* A negative number typed into a score field of set 1: the input handler *)
(* takes any number.                                                       *)
TypeNegativeScore ==
    \E team \in Teams, newScore \in NegativeScores :
        ShortLog /\ ScoreInput(team, 1, newScore, FALSE)

ClickScore ==
    \E team \in Teams, change \in {1, -1} :
        /\ ShortLog
        /\ score[set_counter][team] + change <= MaxScore
        /\ ScoreButton(team, change)

ClickSet ==
    \E change \in {1, -1} :
        /\ ShortLog
        /\ set_counter + change \in EditSets \cup {0}
        /\ SetChangeButton(change)

ClickReset == ResetScores

Refresh == UpdateUI

Next ==
    \/ TypeScore
    \/ TypeSquadScore
    \/ TypeNegativeScore
    \/ ClickScore
    \/ ClickSet
    \/ ClickReset
    \/ Refresh

Spec == Init /\ [][Next]_vars
-----------------------------------------------------------------------------
(* SpecCap: the edit handlers on a log that is about to reach the cap.     *)
(* The log was built after a reset by set-change clicks between sets 1 and *)
(* 2; the user is authorised for the channel or not.  Handlers are         *)
(* explored near the cap and until the reset event at the head is dropped.  *)

PrefilledLog(n) ==
    [i \in 1..n |-> IF i = 1 THEN ResetEvent
                    ELSE SetEvent(IF i % 2 = 0 THEN 2 ELSE 1)]

CapSets == {1}  \* set whose score fields are typed into

(* Starting server and receiver of every set: not selected, or a and c *)
CapConfigs == {<<"", "">>, <<"a", "c">>}

InitCap ==
    /\ \E n \in {HistoryLimit - 1, HistoryLimit} :
          /\ event_history = PrefilledLog(n)
          /\ active_set = IF n % 2 = 0 THEN 2 ELSE 1
          /\ set_counter = active_set
    /\ score = ZeroScores
    /\ win_points = DefaultWinPoints
    /\ hardcap = DefaultHardcap
    /\ \E config \in CapConfigs :
          /\ starting_server = [s \in Sets |-> config[1]]
          /\ starting_receiver = [s \in Sets |-> config[2]]
    /\ authorized \in BOOLEAN
    /\ last = [op |-> "init"]

NearCap ==
    /\ Len(event_history) > HistoryLimit - MaxOver
    /\ Len(event_history) < HistoryLimit + MaxOver
    /\ event_history[1].type = "reset"

CapTypeScore ==
    \E team \in Teams, set \in CapSets, newScore \in TypedScores :
        NearCap /\ ScoreInput(team, set, newScore, FALSE)

CapClickSet ==
    \E change \in {1, -1} :
        /\ NearCap
        /\ set_counter + change \in EditSets \cup {0}
        /\ SetChangeButton(change)

NextCap ==
    \/ CapTypeScore
    \/ CapClickSet
    \/ ClickReset
    \/ Refresh

SpecCap == InitCap /\ [][NextCap]_vars

-----------------------------------------------------------------------------
(* SpecHist: getScoreHistory on the logs a snapshot of the store can hold  *)
(* (processDataAndUpdateFields takes any array as the log).                *)

HistEvents ==
    {ResetEvent, SetEvent(2), SquadEvent("a", 1)}
        \cup {ScoreEvent(team, set, 1) : team \in Teams, set \in EditSets}

LogsUpTo(n) == UNION {[1..k -> HistEvents] : k \in 0..n}

InitHist ==
    /\ event_history \in LogsUpTo(MaxHist)
    /\ score = ZeroScores
    /\ active_set = 1
    /\ set_counter = 1
    /\ win_points = DefaultWinPoints
    /\ hardcap = DefaultHardcap
    /\ starting_server = [s \in Sets |-> ""]
    /\ starting_receiver = [s \in Sets |-> ""]
    /\ authorized = TRUE
    /\ last = [op |-> "init"]

ReadHistory == \E set \in EditSets : CallGetScoreHistory(set)

NextHist == ReadHistory

SpecHist == InitHist /\ [][NextHist]_vars

-----------------------------------------------------------------------------
(* SpecWin: the classifier on the scores a snapshot of the store can hold  *)
(* for set 1, under the settings typed into the two settings fields.       *)

InitWin ==
    /\ event_history = <<>>
    /\ \E scoreA \in 0..MaxClassScore, scoreB \in 0..MaxClassScore :
          score = [ZeroScores EXCEPT ![1] = [a |-> scoreA, b |-> scoreB]]
    /\ active_set = 1
    /\ set_counter = 1
    /\ win_points = DefaultWinPoints
    /\ hardcap = DefaultHardcap
    /\ starting_server = [s \in Sets |-> ""]
    /\ starting_receiver = [s \in Sets |-> ""]
    /\ authorized = TRUE
    /\ last = [op |-> "init"]

TypeWinPoints == \E value \in WinPointsValues : WinPointsInput(value)

TypeHardcap == \E value \in HardcapValues : HardcapInput(value)

ReadSetWinner == CallSetWinner(1)

ReadIsInOvertime == CallIsInOvertime(1)

NextWin ==
    \/ TypeWinPoints
    \/ TypeHardcap
    \/ ReadSetWinner
    \/ ReadIsInOvertime

SpecWin == InitWin /\ [][NextWin]_vars

-----------------------------------------------------------------------------
(* SpecServe: getServeInfo on the scores a snapshot of the store can hold  *)
(* for set 1, with any player or nobody selected as the starting server.   *)

InitServe ==
    /\ event_history = <<>>
    /\ \E scoreA \in 0..MaxClassScore, scoreB \in 0..MaxClassScore :
          score = [ZeroScores EXCEPT ![1] = [a |-> scoreA, b |-> scoreB]]
    /\ active_set = 1
    /\ set_counter = 1
    /\ win_points = DefaultWinPoints
    /\ hardcap = DefaultHardcap
    /\ \E player \in Players \cup {""} :
          starting_server = [s \in Sets |-> IF s = 1 THEN player ELSE ""]
    /\ starting_receiver = [s \in Sets |-> ""]
    /\ authorized = TRUE
    /\ last = [op |-> "init"]

ReadServeInfo == CallGetServeInfo

NextServe ==
    \/ TypeWinPoints
    \/ TypeHardcap
    \/ ReadServeInfo

SpecServe == InitServe /\ [][NextServe]_vars

-----------------------------------------------------------------------------
(* SpecRot: the rotation of set 1 for the 8 valid starting configurations, *)
(* on scores and logs a snapshot of the store can hold: scores in normal   *)
(* play and in overtime, with no recorded history or with the two events   *)
(* recorded when 15 and 14 are typed into the score fields of set 1.       *)

ValidConfigs ==
    {<<"a", "c">>, <<"a", "d">>, <<"b", "c">>, <<"b", "d">>,
     <<"c", "a">>, <<"c", "b">>, <<"d", "a">>, <<"d", "b">>}

RotScores == {<<0, 0>>, <<14, 14>>, <<15, 14>>, <<20, 21>>, <<21, 4>>}

RotLogs ==
    {<<>>,
     <<ScoreEvent("a", 1, 15), ScoreEvent("b", 1, 14)>>}

InitRot ==
    /\ event_history \in RotLogs
    /\ \E pair \in RotScores :
          score = [ZeroScores EXCEPT ![1] = [a |-> pair[1], b |-> pair[2]]]
    /\ active_set = 1
    /\ set_counter = 1
    /\ win_points = DefaultWinPoints
    /\ hardcap = DefaultHardcap
    /\ \E config \in ValidConfigs :
          /\ starting_server = [s \in Sets |-> IF s = 1 THEN config[1] ELSE ""]
          /\ starting_receiver = [s \in Sets |-> IF s = 1 THEN config[2] ELSE ""]
    /\ authorized = TRUE
    /\ last = [op |-> "init"]

(* The points are asked for in order, as calculateStatistics walks them *)
NextPointIndex(op) == IF last.op = op THEN last.pointIndex + 1 ELSE 0

ReadServer ==
    LET pointIndex == NextPointIndex("getServingPlayerAtPoint")
    IN  pointIndex <= MaxPointIndex /\ CallGetServingPlayerAtPoint(pointIndex, 1)

ReadReceiver ==
    LET pointIndex == NextPointIndex("getReceivingPlayerAtPoint")
    IN  pointIndex <= MaxPointIndex /\ CallGetReceivingPlayerAtPoint(pointIndex, 1)

NextRot ==
    \/ TypeWinPoints
    \/ TypeHardcap
    \/ ReadServer
    \/ ReadReceiver

SpecRot == InitRot /\ [][NextRot]_vars

-----------------------------------------------------------------------------
(* SpecStat: the queries on the logs a snapshot of the store can hold,     *)
(* with the same starting configuration, valid or not selected, in sets 1  *)
(* and 2.  The events include the two recorded when 15 and 14 are typed    *)
(* into the score fields of set 1.                                         *)

StatEvents ==
    {ResetEvent,
     ScoreEvent("a", 1, 1), ScoreEvent("a", 1, 15), ScoreEvent("b", 1, 14),
     ScoreEvent("b", 2, 1)}

StatConfigs == ValidConfigs \cup {<<"", "">>}

(* A longer log: four points of set 1 and one of set 2 *)
StatLongLogs ==
    {<<ScoreEvent("a", 1, 1), ScoreEvent("b", 2, 1), ScoreEvent("a", 1, 1),
       ScoreEvent("a", 1, 1), ScoreEvent("a", 1, 1)>>}

InitStat ==
    /\ event_history \in UNION {[1..k -> StatEvents] : k \in 0..MaxStatLog}
                              \cup StatLongLogs
    /\ score = ZeroScores
    /\ active_set = 1
    /\ set_counter = 1
    /\ win_points = DefaultWinPoints
    /\ hardcap = DefaultHardcap
    /\ \E config \in StatConfigs :
          /\ starting_server = [s \in Sets |-> IF s \in EditSets THEN config[1] ELSE ""]
          /\ starting_receiver = [s \in Sets |-> IF s \in EditSets THEN config[2] ELSE ""]
    /\ authorized = TRUE
    /\ last = [op |-> "init"]

ReadStatistics ==
    \E type \in {"game", "set"}, set \in EditSets : CallCalculateStatistics(type, set)

NextStat == ReadStatistics

SpecStat == InitStat /\ [][NextStat]_vars

-----------------------------------------------------------------------------
(* SpecQuery: all the queries side by side, on a few logs and scores a     *)
(* snapshot of the store can hold.                                         *)

QueryLogs ==
    {<<>>,
     <<ScoreEvent("a", 1, 1), ScoreEvent("b", 1, 1)>>,
     <<ScoreEvent("a", 1, 15), ScoreEvent("b", 1, 14)>>,
     <<ScoreEvent("a", 1, 1), ResetEvent, ScoreEvent("b", 2, 1)>>}

InitQuery ==
    /\ event_history \in QueryLogs
    /\ \E pair \in RotScores :
          score = [ZeroScores EXCEPT ![1] = [a |-> pair[1], b |-> pair[2]]]
    /\ active_set = 1
    /\ set_counter = 1
    /\ win_points = DefaultWinPoints
    /\ hardcap = DefaultHardcap
    /\ \E config \in StatConfigs :
          /\ starting_server = [s \in Sets |-> IF s \in EditSets THEN config[1] ELSE ""]
          /\ starting_receiver = [s \in Sets |-> IF s \in EditSets THEN config[2] ELSE ""]
    /\ authorized = TRUE
    /\ last = [op |-> "init"]

ReadQueryServer ==
    \E pointIndex \in 0..MaxStatLog : CallGetServingPlayerAtPoint(pointIndex, 1)

ReadQueryReceiver ==
    \E pointIndex \in 0..MaxStatLog : CallGetReceivingPlayerAtPoint(pointIndex, 1)

NextQuery ==
    \/ ReadStatistics
    \/ ReadHistory
    \/ ReadSetWinner
    \/ ReadQueryServer
    \/ ReadQueryReceiver

SpecQuery == InitQuery /\ [][NextQuery]_vars

-----------------------------------------------------------------------------
(* SpecLoad: snapshots of the store applied between set changes, resets    *)
(* and refreshes, from the state after construction.                       *)

LoadedLogs == {<<>>, <<ScoreEvent("a", 1, 1)>>}
LoadedSets == {0, 1, NumSets, NumSets + 1}
LoadedScores == {ZeroScores, [ZeroScores EXCEPT ![1]["a"] = 1]}

Snapshots ==
    {[log_kind |-> k, log |-> l, has_active_set |-> hs, active_set |-> a,
      has_score |-> hv, score |-> v] :
        k \in {"absent", "array", "other"}, l \in LoadedLogs, hs \in BOOLEAN,
        a \in LoadedSets, hv \in BOOLEAN, v \in LoadedScores}

(* One snapshot per shape: fields that are not read are fixed *)
NormalSnapshots ==
    {d \in Snapshots :
        /\ d.log_kind # "array" => d.log = <<>>
        /\ ~d.has_active_set => d.active_set = 1
        /\ ~d.has_score => d.score = ZeroScores}

InitLoad == Init

InsertLiveData ==
    \E data \in NormalSnapshots : processDataAndUpdateFields(data)

LoadClickSet ==
    \E change \in {1, -1} :
        /\ Len(event_history) < MaxLoadLog
        /\ SetChangeButton(change)

NextLoad ==
    \/ InsertLiveData
    \/ LoadClickSet
    \/ ClickReset
    \/ Refresh

SpecLoad == InitLoad /\ [][NextLoad]_vars

-----------------------------------------------------------------------------
(* SpecUpload: uploadData on the list of elements that changed, whose     *)
(* values are texts that parse as an integer or do not.                    *)

UploadPaths == {ScorePath, ActiveSetPath, ServerPath, NamePath}
UploadTexts == {<<>>, <<"7">>, <<"a">>, <<"1", "2">>, <<"1", "a">>, <<"-", "1">>, <<" ", "3">>}
UploadElements == [path : UploadPaths, value : UploadTexts]

InitUpload ==
    /\ event_history \in {<<>>, <<ResetEvent, ScoreEvent("a", 1, 7)>>}
    /\ score = ZeroScores
    /\ active_set = 1
    /\ set_counter = 1
    /\ win_points = DefaultWinPoints
    /\ hardcap = DefaultHardcap
    /\ starting_server = [s \in Sets |-> ""]
    /\ starting_receiver = [s \in Sets |-> ""]
    /\ authorized \in BOOLEAN
    /\ \E n \in 1..MaxElems : \E elemList \in [1..n -> UploadElements] :
          last = [op |-> "changed", elemList |-> elemList]

(* The elements whose values changed are uploaded *)
UploadElementList ==
    /\ last.op = "changed"
    /\ UploadData(last.elemList)

NextUpload == UploadElementList

SpecUpload == InitUpload /\ [][NextUpload]_vars

-----------------------------------------------------------------------------
(* SpecSets: getSetScore on the first sets won by either team or not won,  *)
(* with every value active_set can hold after a load.                      *)

SetScorePairs == {<<0, 0>>, <<15, 3>>, <<3, 15>>, <<20, 21>>}

InitSets ==
    /\ event_history = <<>>
    /\ \E pairs \in [1..MaxScoredSet -> SetScorePairs] :
          score = [s \in Sets |->
                      IF s <= MaxScoredSet
                      THEN [a |-> pairs[s][1], b |-> pairs[s][2]]
                      ELSE [a |-> 0, b |-> 0]]
    /\ active_set \in 0..(NumSets + 1)
    /\ set_counter = active_set
    /\ win_points = DefaultWinPoints
    /\ hardcap = DefaultHardcap
    /\ starting_server = [s \in Sets |-> ""]
    /\ starting_receiver = [s \in Sets |-> ""]
    /\ authorized = TRUE
    /\ last = [op |-> "init"]

ReadSetScore == \E team \in Teams : CallGetSetScore(team)

NextSets ==
    \/ TypeWinPoints
    \/ TypeHardcap
    \/ ReadSetScore

SpecSets == InitSets /\ [][NextSets]_vars

-----------------------------------------------------------------------------
(* SpecTie: a set played to one point below the hardcap.  The score fields *)
(* of set 1 are typed to hardcap - 1, then the score buttons are clicked   *)
(* (explored from hardcap - 1 upwards); neither handler looks at setWinner. *)

TieTypedScores == {DefaultHardcap - 1}

TieShortLog == Len(event_history) < MaxTieLog

TieTypeScore ==
    \E team \in Teams, newScore \in TieTypedScores :
        TieShortLog /\ ScoreInput(team, 1, newScore, FALSE)

TieClickScore ==
    \E team \in Teams, change \in {1, -1} :
        /\ TieShortLog
        /\ score[set_counter][team] + change >= DefaultHardcap - 1
        /\ ScoreButton(team, change)

NextTie ==
    \/ TieTypeScore
    \/ TieClickScore
    \/ TypeHardcap
    \/ ClickReset

SpecTie == Init /\ [][NextTie]_vars

-----------------------------------------------------------------------------
(* SpecFormat: the receiver of set 1 when the winning score field holds a  *)
(* number other than 15 and 21 (the handler takes any number), for the 8   *)
(* valid starting configurations, on scores in normal play and in overtime *)
(* with no recorded history.                                               *)

FormatWinPoints == {11, 15, 21}

FormatScores == {<<0, 0>>, <<11, 11>>, <<15, 14>>}

InitFormat ==
    /\ event_history = <<>>
    /\ \E pair \in FormatScores :
          score = [ZeroScores EXCEPT ![1] = [a |-> pair[1], b |-> pair[2]]]
    /\ active_set = 1
    /\ set_counter = 1
    /\ win_points = DefaultWinPoints
    /\ hardcap = DefaultHardcap
    /\ \E config \in ValidConfigs :
          /\ starting_server = [s \in Sets |-> IF s = 1 THEN config[1] ELSE ""]
          /\ starting_receiver = [s \in Sets |-> IF s = 1 THEN config[2] ELSE ""]
    /\ authorized = TRUE
    /\ last = [op |-> "init"]

TypeFormatWinPoints == \E value \in FormatWinPoints : WinPointsInput(value)

NextFormat ==
    \/ TypeFormatWinPoints
    \/ ReadReceiver

SpecFormat == InitFormat /\ [][NextFormat]_vars

-----------------------------------------------------------------------------
(* SpecClicks: the buttons only.  From the state after construction, with  *)
(* the starting configuration selected or not and the user authorised or   *)
(* not, the reset button, the score buttons and the set change buttons are *)
(* clicked while the log is short; the 300 ms refresh runs in between.     *)

InitClicks ==
    /\ event_history = <<>>
    /\ score = ZeroScores
    /\ active_set = 1
    /\ set_counter = 1
    /\ win_points = DefaultWinPoints
    /\ hardcap = DefaultHardcap
    /\ \E config \in CapConfigs :
          /\ starting_server = [s \in Sets |-> config[1]]
          /\ starting_receiver = [s \in Sets |-> config[2]]
    /\ authorized \in BOOLEAN
    /\ last = [op |-> "init"]

ClicksShortLog == Len(event_history) < MaxClickLog

ClicksScore ==
    \E team \in Teams, change \in {1, -1} :
        ClicksShortLog /\ ScoreButton(team, change)

ClicksSet ==
    \E change \in {1, -1} :
        /\ ClicksShortLog
        /\ set_counter + change \in EditSets \cup {0}
        /\ SetChangeButton(change)

NextClicks ==
    \/ ClicksScore
    \/ ClicksSet
    \/ ClickReset
    \/ Refresh

SpecClicks == InitClicks /\ [][NextClicks]_vars

-----------------------------------------------------------------------------
(* SpecPlay: set 1 played point by point with the +1 buttons.  The set has *)
(* been played in alternation to 0:0, 14:14 or 20:20 (the log holds one    *)
(* score event per point) and is played on from there, for win_points 15   *)
(* and 21 and every starting configuration, valid or not selected.         *)

PlayedLengths == {0, 28, 40}

PlayedLog(n) ==
    [i \in 1..n |-> ScoreEvent(IF i % 2 = 1 THEN "a" ELSE "b", 1, (i + 1) \div 2)]

InitPlay ==
    /\ \E n \in PlayedLengths :
          /\ event_history = PlayedLog(n)
          /\ score = [ZeroScores EXCEPT ![1] = [a |-> n \div 2, b |-> n \div 2]]
    /\ active_set = 1
    /\ set_counter = 1
    /\ win_points \in WinPointsValues
    /\ hardcap = DefaultHardcap
    /\ \E config \in StatConfigs :
          /\ starting_server = [s \in Sets |-> IF s = 1 THEN config[1] ELSE ""]
          /\ starting_receiver = [s \in Sets |-> IF s = 1 THEN config[2] ELSE ""]
    /\ authorized = TRUE
    /\ last = [op |-> "init"]

(* Points played since the state drawn *)
PointsPlayedOn ==
    LET starts == {n \in PlayedLengths : n <= Len(event_history)}
    IN  Len(event_history) - (CHOOSE n \in starts : \A m \in starts : m <= n)

PlayPoint ==
    \E team \in Teams :
        /\ PointsPlayedOn < MaxPlayed
        /\ ScoreButton(team, 1)

NextPlay ==
    \/ PlayPoint
    \/ Refresh

SpecPlay == InitPlay /\ [][NextPlay]_vars

-----------------------------------------------------------------------------
(* SpecRemove: removeEventHistoryEvents on the logs a snapshot can hold,   *)
(* with and without an event that matches.                                 *)

RemoveEvents ==
    {ScoreEvent("a", 1, 1), ScoreEvent("a", 1, 2), ScoreEvent("a", 2, 2),
     ScoreEvent("b", 1, 2), SetEvent(2), SquadEvent("a", 2)}
RemoveScores == {0, 1, 2}

InitRemove ==
    /\ event_history \in UNION {[1..k -> RemoveEvents] : k \in 0..MaxRemoveLog}
    /\ score = ZeroScores
    /\ active_set = 1
    /\ set_counter = 1
    /\ win_points = DefaultWinPoints
    /\ hardcap = DefaultHardcap
    /\ starting_server = [s \in Sets |-> ""]
    /\ starting_receiver = [s \in Sets |-> ""]
    /\ authorized = TRUE
    /\ last = [op |-> "init"]

RemoveFromLog ==
    \E team \in Teams, newScore \in RemoveScores, set \in EditSets :
        RemoveEventHistoryEvents(team, newScore, set)

NextRemove == RemoveFromLog

SpecRemove == InitRemove /\ [][NextRemove]_vars

-----------------------------------------------------------------------------
(* Properties of the classifier, checked under SpecWin *)

(* C6: setWinner follows the three-step rule for all score pairs and        *)
(* settings: with either score at or above hardcap the higher-scoring team  *)
(* wins regardless of the margin; else with either score at or above        *)
(* win_points and a margin of at least min_win_margin the higher-scoring    *)
(* team wins; otherwise there is no winner.                                 *)
C6_ThreeStepRule ==
    last.op = "setWinner" =>
        LET scoreA == score[last.set]["a"]
            scoreB == score[last.set]["b"]
            margin == IF scoreA >= scoreB THEN scoreA - scoreB ELSE scoreB - scoreA
            higher == IF scoreA > scoreB THEN {"a"}
                      ELSE IF scoreB > scoreA THEN {"b"} ELSE {"a", "b"}
            capReached == scoreA >= hardcap \/ scoreB >= hardcap
            winReached == scoreA >= win_points \/ scoreB >= win_points
        IN  /\ capReached => last.val \in higher
            /\ (~capReached /\ winReached /\ margin >= min_win_margin)
                   => last.val \in higher
            /\ (~capReached /\ ~(winReached /\ margin >= min_win_margin))
                   => last.val = Null

(* C6 witness: 25:23 with hardcap 25 gives team a *)
C6_Witness ==
    /\ last.op = "setWinner"
    /\ hardcap = 25
    /\ win_points = 21
    /\ score[1]["a"] = 25
    /\ score[1]["b"] = 23
    /\ last.val = "a"

(* C7: with win_points 21, hardcap 25 and min_win_margin 2, setWinner for   *)
(* the score 21:19 returns no winner.                                       *)
C7_NoWinnerAt21To19 ==
    (/\ last.op = "setWinner"
     /\ win_points = 21
     /\ hardcap = 25
     /\ score[last.set]["a"] = 21
     /\ score[last.set]["b"] = 19) => last.val = Null

(* C7 as the code has it: with win_points 21, hardcap 25 and                *)
(* min_win_margin 2, setWinner for the score 21:19 returns team a, and for  *)
(* 21:20 it returns no winner.                                              *)
C7_WinnerAt21To19 ==
    (/\ last.op = "setWinner"
     /\ win_points = 21
     /\ hardcap = 25
     /\ score[last.set]["a"] = 21)
        => /\ score[last.set]["b"] = 19 => last.val = "a"
           /\ score[last.set]["b"] = 20 => last.val = Null

C7_Witness ==
    /\ last.op = "setWinner"
    /\ win_points = 21
    /\ hardcap = 25
    /\ score[1]["a"] = 21
    /\ score[1]["b"] = 19
    /\ last.val = "a"

(* C8: for all score pairs and settings, isInOvertime is true if and only   *)
(* if either score is at or above hardcap, or either score is at or above   *)
(* win_points and the margin is below min_win_margin.                       *)
C8_OvertimeIff ==
    last.op = "isInOvertime" =>
        LET scoreA == score[last.set]["a"]
            scoreB == score[last.set]["b"]
            margin == IF scoreA >= scoreB THEN scoreA - scoreB ELSE scoreB - scoreA
        IN  last.val = TRUE <=>
                \/ scoreA >= hardcap
                \/ scoreB >= hardcap
                \/ /\ (scoreA >= win_points \/ scoreB >= win_points)
                   /\ margin < min_win_margin

(* C8 witness: win_points reached with a margin of 1, below the hardcap *)
C8_Witness ==
    /\ last.op = "isInOvertime"
    /\ last.val = TRUE
    /\ score[1]["a"] = win_points
    /\ score[1]["b"] = win_points - 1
    /\ win_points < hardcap

-----------------------------------------------------------------------------
(* Properties of the rotation, checked under SpecRot *)

(* C9: for each of the 8 valid starting configurations, in the normal and   *)
(* in the overtime regime, getServingPlayerAtPoint(0, set) is the starting  *)
(* server and getReceivingPlayerAtPoint(0, set) is the starting receiver.   *)
C9_PointZero ==
    /\ (last.op = "getServingPlayerAtPoint" /\ last.pointIndex = 0)
           => last.val = starting_server[last.set]
    /\ (last.op = "getReceivingPlayerAtPoint" /\ last.pointIndex = 0)
           => last.val = starting_receiver[last.set]

(* C9 witness: the server of point 0 asked for while the set is in overtime *)
C9_Witness ==
    /\ last.op = "getServingPlayerAtPoint"
    /\ last.pointIndex = 0
    /\ isInOvertime(1, 0)
    /\ last.val = starting_server[1]
    /\ <<starting_server[1], starting_receiver[1]>> \in ValidConfigs

(* C10: for each of the 8 valid starting configurations and every           *)
(* pointIndex in 0..99, in the normal and in the overtime regime,           *)
(* getServingPlayerAtPoint and getReceivingPlayerAtPoint both return a      *)
(* player and the two players are on opposite teams.                        *)
C10_OppositeTeams ==
    /\ last.op = "getServingPlayerAtPoint" =>
          /\ last.val \in Players
          /\ getReceivingPlayerAtPoint(last.pointIndex, last.set) \in Players
          /\ getPlayerTeam(last.val)
                 # getPlayerTeam(getReceivingPlayerAtPoint(last.pointIndex, last.set))
    /\ last.op = "getReceivingPlayerAtPoint" =>
          /\ last.val \in Players
          /\ getServingPlayerAtPoint(last.pointIndex, last.set) \in Players
          /\ getPlayerTeam(last.val)
                 # getPlayerTeam(getServingPlayerAtPoint(last.pointIndex, last.set))

-----------------------------------------------------------------------------
(* Properties of getScoreHistory, checked under SpecHist *)

(* C2: for every log and every set s, getScoreHistory(s) returns exactly    *)
(* the score events located after the most recent reset event (the whole    *)
(* log if there is none) whose set is s, in their original log order, and   *)
(* no event at or before that reset, no squad-score event, no set-change    *)
(* event and no event of another set.                                       *)
C2_ScoreHistory ==
    last.op = "getScoreHistory" =>
        LET h == event_history
            kept == {i \in 1..Len(h) :
                        /\ h[i].type = "score"
                        /\ h[i].set = last.set
                        /\ \A j \in i..Len(h) : h[j].type # "reset"}
            nth(k) == CHOOSE i \in kept : Cardinality({j \in kept : j < i}) = k - 1
        IN  /\ Len(last.val) = Cardinality(kept)
            /\ \A k \in 1..Len(last.val) : last.val[k] = h[nth(k)]

(* C2 witness: a score event of the set on either side of a reset *)
C2_Witness ==
    /\ last.op = "getScoreHistory"
    /\ Len(last.val) = 1
    /\ \E i, j, k \in 1..Len(event_history) :
          /\ i < j
          /\ j < k
          /\ event_history[i].type = "score"
          /\ event_history[i].set = last.set
          /\ event_history[j].type = "reset"
          /\ event_history[k] = last.val[1]

-----------------------------------------------------------------------------
(* Properties of the score edit on short logs, checked under Spec *)

(* C3: a non-squad score edit that decreases a score (newScore < oldScore)  *)
(* removes at most one event from the log, the most recent score event of   *)
(* the same team and set whose score is above newScore; every other event   *)
(* stays in the log in its original relative order.                         *)
C3_RemovesMostRecent ==
    [][ (/\ last'.op = "scoreInput"
         /\ ~last'.isSquadScore
         /\ last'.newScore < last'.oldScore)
        => LET h == event_history
               hits == {i \in 1..Len(h) :
                           /\ h[i].type = "score"
                           /\ h[i].team = last'.team
                           /\ h[i].set = last'.set
                           /\ h[i].score > last'.newScore}
           IN  \/ hits = {} /\ event_history' = h
               \/ \E i \in hits :
                     /\ \A j \in hits : j <= i
                     /\ Len(event_history') = Len(h) - 1
                     /\ \A k \in 1..(Len(h) - 1) :
                           event_history'[k] = h[IF k < i THEN k ELSE k + 1]
      ]_vars

(* C3 witness: after the decrease another score event of the team and set  *)
(* with a score above newScore is still in the log.                        *)
C3_Witness ==
    /\ last.op = "scoreInput"
    /\ ~last.isSquadScore
    /\ last.newScore < last.oldScore
    /\ \E i \in 1..Len(event_history) :
          /\ event_history[i].type = "score"
          /\ event_history[i].team = last.team
          /\ event_history[i].set = last.set
          /\ event_history[i].score > last.newScore

(* C4: whenever a non-squad score edit takes the decrease branch            *)
(* (newScore < oldScore), exactly one event is removed from the log: its    *)
(* length decreases by exactly 1, whether the score dropped by one point    *)
(* or by many.                                                              *)
C4_ExactlyOneRemoved ==
    [][ (/\ last'.op = "scoreInput"
         /\ ~last'.isSquadScore
         /\ last'.newScore < last'.oldScore)
        => Len(event_history') = Len(event_history) - 1
      ]_vars

(* C4 witness: a decrease by more than one point *)
C4_Witness ==
    /\ last.op = "scoreInput"
    /\ ~last.isSquadScore
    /\ last.oldScore - last.newScore >= 2

-----------------------------------------------------------------------------
(* Properties of the log at the cap, checked under SpecCap *)

(* C1: after any sequence of score edits, set changes and resets, the       *)
(* event log never holds more than 200 entries.                             *)
C1_NeverMoreThan200 == Len(event_history) <= HistoryLimit

(* C1 as the code has it: the log holds at most 200 entries after every     *)
(* refresh, and after every score edit, set change and reset whose handler  *)
(* reaches the upload as a user authorised for the channel; when such a     *)
(* step takes the log past 200 the oldest entries are dropped first and the *)
(* kept entries are exactly the most recent 200 in their original order; an *)
(* append of a user who is not authorised, or of a score input handler      *)
(* that ends in the TypeError of the display update, is kept untrimmed.     *)
C1_TrimmedToMostRecent ==
    [][ LET h == event_history
            appends ==
                \/ last'.op = "setChange"
                \/ /\ last'.op = "scoreInput"
                   /\ (last'.isSquadScore \/ last'.newScore >= last'.oldScore)
            appended ==
                IF last'.op = "setChange" THEN SetEvent(last'.set)
                ELSE IF last'.isSquadScore
                     THEN SquadEvent(last'.team, last'.newScore)
                     ELSE ScoreEvent(last'.team, last'.set, last'.newScore)
            untrimmed == IF appends THEN h \o <<appended>> ELSE h
            uploads ==
                \/ last'.op \in {"setChange", "reset"}
                \/ last'.op = "scoreInput" /\ ~last'.threw
            trims == (authorized /\ uploads) \/ last'.op = "updateUI"
            kept == IF trims /\ Len(untrimmed) > HistoryLimit
                    THEN HistoryLimit ELSE Len(untrimmed)
        IN  /\ trims => Len(event_history') <= HistoryLimit
            /\ (appends \/ last'.op = "updateUI") =>
                  /\ Len(event_history') = kept
                  /\ \A k \in 1..kept :
                        event_history'[k] = untrimmed[k + Len(untrimmed) - kept]
      ]_vars

(* C1 witness: an append of an authorised user has dropped the reset event *)
(* at the head of a log of 200 entries.                                    *)
C1_Witness ==
    /\ authorized
    /\ last.op \in {"scoreInput", "setChange"}
    /\ Len(event_history) = HistoryLimit
    /\ event_history[1].type # "reset"

(* C5: for a non-squad score edit, oldScore is the score of the most recent *)
(* score event for the same team and set (0 if there is none); when         *)
(* newScore >= oldScore exactly one event {score, team, set, newScore} is   *)
(* appended at the tail of the log and no existing event is removed or      *)
(* changed.                                                                 *)
C5_AppendOnly ==
    [][ (last'.op = "scoreInput" /\ ~last'.isSquadScore)
        => LET h == event_history
               hits == {i \in 1..Len(h) :
                           /\ h[i].type = "score"
                           /\ h[i].team = last'.team
                           /\ h[i].set = last'.set}
               expected == IF hits = {} THEN 0
                           ELSE h[CHOOSE i \in hits : \A j \in hits : j <= i].score
           IN  /\ last'.oldScore = expected
               /\ last'.newScore >= expected =>
                     event_history' =
                         h \o <<ScoreEvent(last'.team, last'.set, last'.newScore)>>
      ]_vars

(* C5 as the code has it: oldScore is the score of the most recent score    *)
(* event for the same team and set (0 if there is none); when               *)
(* newScore >= oldScore exactly one event {score, team, set, newScore} is   *)
(* appended at the tail of the log and the existing events are kept         *)
(* unchanged and in order, except that the oldest event is dropped when     *)
(* the log already holds 200 entries and the handler reaches the upload as  *)
(* an authorised user.                                                      *)
C5_AppendAtTail ==
    [][ (last'.op = "scoreInput" /\ ~last'.isSquadScore)
        => LET h == event_history
               hits == {i \in 1..Len(h) :
                           /\ h[i].type = "score"
                           /\ h[i].team = last'.team
                           /\ h[i].set = last'.set}
               expected == IF hits = {} THEN 0
                           ELSE h[CHOOSE i \in hits : \A j \in hits : j <= i].score
               n == Len(h)
               m == IF authorized /\ ~last'.threw /\ n + 1 > HistoryLimit
                    THEN HistoryLimit
                    ELSE n + 1
           IN  /\ last'.oldScore = expected
               /\ last'.newScore >= expected =>
                     /\ Len(event_history') = m
                     /\ event_history'[m]
                            = ScoreEvent(last'.team, last'.set, last'.newScore)
                     /\ \A k \in 1..(m - 1) :
                           event_history'[k] = h[k + (n + 1 - m)]
      ]_vars

(* C5 witness: an increase typed by an authorised user into a log of 200   *)
(* entries has dropped the reset event at the head.                        *)
C5_Witness ==
    /\ authorized
    /\ last.op = "scoreInput"
    /\ ~last.isSquadScore
    /\ last.newScore >= last.oldScore
    /\ Len(event_history) = HistoryLimit
    /\ event_history[1].type # "reset"
    /\ event_history[HistoryLimit] = ScoreEvent(last.team, last.set, last.newScore)

-----------------------------------------------------------------------------
(* Properties of the server sequence, checked under SpecRot *)

(* C11: in normal play, for every valid configuration, the starting server  *)
(* serves point 0 only, then each next server serves exactly two            *)
(* consecutive points (server(2k-1) = server(2k) for k >= 1), the serving   *)
(* team alternates from one turn to the next, and the sequence cycles       *)
(* through all four players with period 8.                                  *)
C11_NormalServerSequence ==
    (/\ last.op = "getServingPlayerAtPoint"
     /\ \A q \in last.pointIndex..(last.pointIndex + 8) : ~isInOvertime(last.set, q))
    => LET p == last.pointIndex
           server(q) == getServingPlayerAtPoint(q, last.set)
       IN  /\ p = 0 => /\ last.val = starting_server[last.set]
                       /\ server(1) # last.val
           /\ p % 2 = 1 => server(p + 1) = last.val
           /\ p % 2 = 0 => /\ server(p + 1) # last.val
                           /\ getPlayerTeam(server(p + 1)) # getPlayerTeam(last.val)
           /\ server(p + 8) = last.val
           /\ {server(q) : q \in p..(p + 7)} = Players

(* C11 witness: the starting server is back at point 8 of a set in normal play *)
C11_Witness ==
    /\ last.op = "getServingPlayerAtPoint"
    /\ last.pointIndex = 8
    /\ \A q \in 0..16 : ~isInOvertime(1, q)
    /\ last.val = starting_server[1]
    /\ getServingPlayerAtPoint(7, 1) = last.val
    /\ getServingPlayerAtPoint(9, 1) # last.val

(* C12: in the overtime regime, for every valid configuration, the server   *)
(* changes on every point: the servers of consecutive overtime point        *)
(* indices are different players on opposite teams, and any four            *)
(* consecutive overtime points are served by the four players once each.    *)
C12_OvertimeSingleServe ==
    (/\ last.op = "getServingPlayerAtPoint"
     /\ \A q \in last.pointIndex..(last.pointIndex + 3) : isInOvertime(last.set, q))
    => LET p == last.pointIndex
           server(q) == getServingPlayerAtPoint(q, last.set)
       IN  /\ last.val \in Players
           /\ server(p + 1) \in Players
           /\ server(p + 1) # last.val
           /\ getPlayerTeam(server(p + 1)) # getPlayerTeam(last.val)
           /\ {server(q) : q \in p..(p + 3)} = Players

-----------------------------------------------------------------------------
(* Properties of getServeInfo, checked under SpecServe *)

-----------------------------------------------------------------------------
(* Properties of calculateStatistics, checked under SpecStat *)

(* C14: calculateStatistics for a single set whose history contains no      *)
(* score event returns 0 for every count (breaks, breakOpportunities,       *)
(* sideouts, sideoutOpportunities) of both teams and all four players, and  *)
(* 0 for every percentage.                                                  *)
C14_EmptySetAllZero ==
    (/\ last.op = "calculateStatistics"
     /\ last.type = "set"
     /\ ~\E i \in 1..Len(event_history) :
            /\ event_history[i].type = "score"
            /\ event_history[i].set = last.set
            /\ \A j \in i..Len(event_history) : event_history[j].type # "reset")
    => /\ ~last.threw
       /\ \A teamKey \in {"teamA", "teamB"} :
             /\ last.val[teamKey].breaks = 0
             /\ last.val[teamKey].breakOpportunities = 0
             /\ last.val[teamKey].breakPercentage = 0
       /\ \A player \in Players :
             /\ last.val.players[player].sideouts = 0
             /\ last.val.players[player].sideoutOpportunities = 0
             /\ last.val.players[player].breaks = 0
             /\ last.val.players[player].breakOpportunities = 0
             /\ last.val.players[player].sideoutPercentage = 0
             /\ last.val.players[player].breakPercentage = 0

(* C14 witness: the statistics of set 2 of a log whose only score events   *)
(* belong to set 1.                                                        *)
C14_Witness ==
    /\ last.op = "calculateStatistics"
    /\ last.type = "set"
    /\ last.set = 2
    /\ Len(event_history) > 0
    /\ \A i \in 1..Len(event_history) :
          event_history[i].type = "score" /\ event_history[i].set = 1
    /\ ~last.threw
    /\ last.val = ZeroStats

(* C15: for every log and every set s with a valid starting configuration,  *)
(* the sum of sideoutOpportunities over the four players in                 *)
(* calculateStatistics('set', s) equals the number of events in             *)
(* getScoreHistory(s).                                                      *)
C15_OneReceiverPerPoint ==
    (/\ last.op = "calculateStatistics"
     /\ last.type = "set"
     /\ <<starting_server[last.set], starting_receiver[last.set]>> \in ValidConfigs)
    => /\ ~last.threw
       /\ last.val.players["a"].sideoutOpportunities
            + last.val.players["b"].sideoutOpportunities
            + last.val.players["c"].sideoutOpportunities
            + last.val.players["d"].sideoutOpportunities
          = Len(getScoreHistory(last.set))

(* C16: for each score event at local index i of its set,                   *)
(* calculateStatistics takes server = getServingPlayerAtPoint(i, set) and   *)
(* receiver = getReceivingPlayerAtPoint(i, set), increments the server      *)
(* team's and the server's breakOpportunities and the receiver's            *)
(* sideoutOpportunities, and then the scoring team's and the server's       *)
(* breaks if the scoring team is the server's team, otherwise the           *)
(* receiver's sideouts; the returned counts equal this fold over the        *)
(* selected events.                                                         *)
C16_CountsAreTheFold ==
    (last.op = "calculateStatistics" /\ ~last.threw)
    => LET items == eventsToProcess(last.type, last.set)
           points == 1..Len(items)
           server(i) == getServingPlayerAtPoint(items[i].index, items[i].set)
           receiver(i) == getReceivingPlayerAtPoint(items[i].index, items[i].set)
           scorer(i) == items[i].event.team
           isBreak(i) == scorer(i) = getPlayerTeam(server(i))
           teamKey(t) == IF t = "a" THEN "teamA" ELSE "teamB"
       IN  /\ \A t \in Teams :
                /\ last.val[teamKey(t)].breakOpportunities
                     = Cardinality({i \in points : getPlayerTeam(server(i)) = t})
                /\ last.val[teamKey(t)].breaks
                     = Cardinality({i \in points : isBreak(i) /\ scorer(i) = t})
           /\ \A player \in Players :
                /\ last.val.players[player].breakOpportunities
                     = Cardinality({i \in points : server(i) = player})
                /\ last.val.players[player].breaks
                     = Cardinality({i \in points : server(i) = player /\ isBreak(i)})
                /\ last.val.players[player].sideoutOpportunities
                     = Cardinality({i \in points : receiver(i) = player})
                /\ last.val.players[player].sideouts
                     = Cardinality({i \in points : receiver(i) = player /\ ~isBreak(i)})

(* C16 witness: a game with a break and a sideout *)
C16_Witness ==
    /\ last.op = "calculateStatistics"
    /\ last.type = "game"
    /\ ~last.threw
    /\ \E player \in Players : last.val.players[player].breaks = 1
    /\ \E player \in Players : last.val.players[player].sideouts = 1

-----------------------------------------------------------------------------
(* Properties of the queries as a whole, checked under SpecQuery *)

-----------------------------------------------------------------------------
(* Properties of the reset and of the sign of the scores, checked under Spec *)

(* C19 as stated: a reset appends a reset event without physically         *)
(* clearing the log; the events that were in the log before the reset are  *)
(* still present ahead of the new reset event, subject only to the cap.    *)
C19_ResetKeepsEarlierEvents ==
    [][ last'.op = "reset"
        => event_history' = uploadData(Append(event_history, ResetEvent))
      ]_vars

(* C19 amended: a reset replaces the log by the single reset event,        *)
(* whatever the log held before; every score is 0 and set 1 is active.     *)
C19_ResetClearsLog ==
    [][ last'.op = "reset"
        => /\ event_history' = <<ResetEvent>>
           /\ score' = ZeroScores
           /\ active_set' = 1
      ]_vars

(* C19 witness: a reset was clicked on a log that held events *)
C19_Witness ==
    /\ last.op = "reset"
    /\ last.before >= 2
    /\ event_history = <<ResetEvent>>

(* C20: every score of every set and team is >= 0 in every reachable       *)
(* state; in particular a -1 score-button click on a score of 0 changes    *)
(* neither the score nor the event log.                                    *)
C20_ScoresNeverNegative ==
    /\ [](\A s \in Sets, t \in Teams : score[s][t] >= 0)
    /\ [][ (last'.op = "scoreButtonIgnored" /\ last'.change = -1)
           => UNCHANGED <<score, event_history>> ]_vars

(* The second half of C20 alone: an ignored -1 click changes nothing *)
C20_ClickOnZeroIgnored ==
    [][ (\E t \in Teams : score[set_counter][t] = 0 /\ last'.op = "scoreButtonIgnored"
                             /\ last'.team = t /\ last'.change = -1)
        => UNCHANGED <<score, event_history>> ]_vars

-----------------------------------------------------------------------------
(* Properties of the snapshot load, checked under SpecLoad *)

(* C21: active_set is in 1..7 in every reachable state, after any sequence *)
(* of set-change clicks, resets and applied snapshots; a set-change click  *)
(* whose target would be below 1 or above 7 leaves active_set, the scores  *)
(* and the event log unchanged.                                            *)
C21_ActiveSetInRange ==
    /\ [](active_set \in 1..NumSets)
    /\ [][ last'.op = "setChangeIgnored"
           => UNCHANGED <<active_set, score, event_history>> ]_vars

(* The second half of C21 alone: a set-change click is ignored exactly     *)
(* when its target is outside 1..7, and then changes nothing.              *)
C21_IgnoredSetChange ==
    [][ \A change \in {1, -1} :
          SetChangeButton(change)
          => IF set_counter + change \in 1..NumSets
             THEN active_set' = set_counter + change
             ELSE UNCHANGED <<active_set, score, event_history>> ]_vars

(* C23: when a loaded snapshot has no event log or an event log that is    *)
(* not an array, the local event log is empty after the load: no events    *)
(* from before the load survive.                                           *)
C23_MalformedLogBecomesEmpty ==
    [][ (last'.op = "processData" /\ last'.data.log_kind # "array")
        => event_history' = <<>> ]_vars

(* The half of C23 that holds: an event log that is not an array *)
C23_NotAnArrayBecomesEmpty ==
    [][ (last'.op = "processData" /\ last'.data.log_kind = "other")
        => event_history' = <<>> ]_vars

-----------------------------------------------------------------------------
(* Properties of the rotation queries on an invalid configuration, checked *)
(* under SpecQuery                                                         *)

(* C22: when the (startingServer, startingReceiver) pair of a set is not   *)
(* one of the 8 valid combinations (including an unset server or           *)
(* receiver), getServingPlayerAtPoint and getReceivingPlayerAtPoint return *)
(* null/absent without raising an error, for every pointIndex.             *)
C22_InvalidPairReturnsNull ==
    (/\ last.op \in {"getServingPlayerAtPoint", "getReceivingPlayerAtPoint"}
     /\ <<starting_server[last.set], starting_receiver[last.set]>> \notin ValidConfigs)
    => last.val \in {Null, Undefined}

(* What the code does on such a pair: both queries throw, at every         *)
(* pointIndex, and so does updateCurrentPlayersDisplay for the active set. *)
C22_InvalidPairThrows ==
    /\ (/\ last.op \in {"getServingPlayerAtPoint", "getReceivingPlayerAtPoint"}
        /\ <<starting_server[last.set], starting_receiver[last.set]>> \notin ValidConfigs)
       => last.val = TypeError
    /\ <<starting_server[active_set], starting_receiver[active_set]>> \notin ValidConfigs
       => updateCurrentPlayersDisplayThrows

-----------------------------------------------------------------------------
(* Properties of the batched write, checked under SpecUpload *)

(* C24: in a batched write, a score or active_set value that cannot be     *)
(* parsed as an integer is left out of the written batch for that single   *)
(* field, and all other fields of the batch are still written.             *)
C24_UnparsableLeftOut ==
    (last.op = "uploadData" /\ last.wrote)
    => LET elemList == last.elemList
           unparsable(e) == convertsToInteger(e.path) /\ parseInt(e.value).kind = "NaN"
           kept == {i \in 1..Len(elemList) : ~unparsable(elemList[i])}
       IN  /\ DOMAIN last.batch = {elemList[i].path : i \in kept} \cup {EventHistoryPath}
           /\ \A path \in DOMAIN last.batch : last.batch[path].kind # "NaN"

(* What the code writes: every element of the list has its entry, and the  *)
(* entry of a score or active_set element whose text has no leading        *)
(* integer is NaN.                                                         *)
C24_UnparsableWrittenAsNaN ==
    /\ parseInt(<<"1", "a">>) = IntValue(1)
    /\ parseInt(<<"-", "1">>) = IntValue(-1)
    /\ parseInt(<<" ", "3">>) = IntValue(3)
    /\ parseInt(<<"1", "2">>) = IntValue(12)
    /\ parseInt(<<>>) = NaNValue
    /\ parseInt(<<"a">>) = NaNValue
    /\ (last.op = "uploadData" /\ last.wrote)
       => LET elemList == last.elemList
          IN  /\ DOMAIN last.batch
                     = {elemList[i].path : i \in 1..Len(elemList)} \cup {EventHistoryPath}
              /\ \A i \in 1..Len(elemList) :
                    (/\ elemList[i].path \in {ScorePath, ActiveSetPath}
                     /\ elemList[i].value \in {<<>>, <<"a">>}
                     /\ \A j \in (i + 1)..Len(elemList) :
                           elemList[j].path # elemList[i].path)
                    => last.batch[elemList[i].path] = NaNValue

-----------------------------------------------------------------------------
(* Properties of what an edit writes, checked under SpecCap *)

-----------------------------------------------------------------------------
(* Properties of the set score, checked under SpecSets *)

(* C26: getSetScore(team) equals the number of sets s with                 *)
(* 1 <= s < active_set for which setWinner(s) returns that team; sets at   *)
(* or after active_set are never counted.                                  *)
C26_SetScoreCountsEarlierSets ==
    last.op = "getSetScore"
    => last.val = Cardinality({s \in Sets : s < active_set /\ setWinner(s) = last.team})

(* C26 witness: the team has won an earlier set and also the active set,   *)
(* which is not counted.                                                   *)
C26_Witness ==
    /\ last.op = "getSetScore"
    /\ active_set \in Sets
    /\ setWinner(active_set) = last.team
    /\ last.val = 2

-----------------------------------------------------------------------------
(* Properties of the removal, checked under SpecRemove *)

(* C27: removeEventHistoryEvents(team, newScore, set) on a log that        *)
(* contains no score event of that team and set with score > newScore      *)
(* leaves the log unchanged and raises no error.                           *)
C27_NoMatchIsNoOp ==
    (/\ last.op = "removeEventHistoryEvents"
     /\ ~\E i \in 1..Len(last.before) :
            /\ last.before[i].type = "score"
            /\ last.before[i].team = last.team
            /\ last.before[i].set = last.set
            /\ last.before[i].score > last.newScore)
    => event_history = last.before

(* C27 witness: the call found no match in a log that holds score events   *)
(* of the team, in another set or with a score that is not above newScore. *)
C27_Witness ==
    /\ last.op = "removeEventHistoryEvents"
    /\ event_history = last.before
    /\ \E i, j \in 1..Len(event_history) :
          /\ event_history[i].type = "score"
          /\ event_history[i].team = last.team
          /\ event_history[i].set = last.set
          /\ event_history[i].score = last.newScore
          /\ event_history[j].type = "score"
          /\ event_history[j].team = last.team
          /\ event_history[j].set # last.set
          /\ event_history[j].score > last.newScore

-----------------------------------------------------------------------------
(* Properties of the scores at the hardcap, checked under SpecTie *)

(* C28: no reachable state has a set in which both teams' scores are       *)
(* equal and at or above hardcap.                                          *)
C28_NoTieAtHardcap ==
    \A s \in Sets :
        ~(score[s]["a"] = score[s]["b"] /\ score[s]["a"] >= hardcap)

(* C28, what the code does with such a state: setWinner takes its hardcap  *)
(* branch and names team b.                                                *)
C28_TieGoesToTeamB ==
    \A s \in Sets :
        (score[s]["a"] = score[s]["b"] /\ score[s]["a"] >= hardcap)
        => setWinner(s) = "b"

-----------------------------------------------------------------------------
(* Properties of the overtime receiver, checked under SpecFormat *)

(* C29: when win_points is neither 15 nor 21, getReceivingPlayerAtPoint in *)
(* the overtime regime returns no player instead of a player taken from    *)
(* one of the two overtime tables.                                         *)
C29_NoReceiverForOtherFormats ==
    (/\ last.op = "getReceivingPlayerAtPoint"
     /\ last.pointIndex > 0
     /\ win_points \notin {15, 21}
     /\ isInOvertime(last.set, last.pointIndex))
    => last.val \in {Null, Undefined}

(* C29, what the code does: for such a win_points the query returns the    *)
(* player the table for 21 gives.                                          *)
C29_OtherFormatsUseTable21 ==
    (/\ last.op = "getReceivingPlayerAtPoint"
     /\ last.pointIndex > 0
     /\ win_points \notin {15, 21}
     /\ isInOvertime(last.set, last.pointIndex))
    => /\ last.val \in Players
       /\ last.val \in
             {at(overtimeOrder21Of(starting_server[last.set],
                                   starting_receiver[last.set]), i) : i \in 0..3}

-----------------------------------------------------------------------------
(* Properties of the log under button clicks, checked under SpecClicks *)

(* C30: after any sequence of reset, +1/-1 score-button and set-change     *)
(* clicks with the log below the cap, for every set s and team t the score *)
(* events of (t, s) after the last reset carry exactly the scores          *)
(* 1..score(s,t) in increasing order, and the length of getScoreHistory(s) *)
(* is scoreA(s) + scoreB(s).                                               *)
C30_LogTracksScores ==
    LET afterReset == sliceFrom(event_history, getLastResetIndex(event_history) + 1)
        eventsOf(t, s) ==
            SelectSeq(afterReset, LAMBDA event :
                          /\ event.type = "score"
                          /\ event.team = t
                          /\ event.set = s)
    IN  \A s \in Sets :
            /\ \A t \in Teams :
                  /\ Len(eventsOf(t, s)) = score[s][t]
                  /\ \A i \in 1..Len(eventsOf(t, s)) : eventsOf(t, s)[i].score = i
            /\ Len(getScoreHistory(s)) = score[s]["a"] + score[s]["b"]

(* C30 witness: after a reset, a -1 click has just undone a point in set 2 *)
(* while both sets hold points.                                            *)
C30_Witness ==
    /\ event_history # <<>>
    /\ event_history[1].type = "reset"
    /\ last.op = "scoreInput"
    /\ last.set = 2
    /\ last.newScore < last.oldScore
    /\ score[1]["a"] >= 1
    /\ score[2][last.team] >= 1

-----------------------------------------------------------------------------
(* Continuity of the rotation at the start of overtime, checked under SpecRot *)

(* C31: for every valid configuration and win_points in {15, 21}, at       *)
(* pointIndex = win_points * 2 - 2 the overtime formula of                 *)
(* getServingPlayerAtPoint yields the same server as the normal-play       *)
(* formula at that index, so the call returns that player in either regime. *)
C31_ServerContinuousAtOvertime ==
    (/\ last.op = "getServingPlayerAtPoint"
     /\ win_points \in {15, 21}
     /\ last.pointIndex = win_points * 2 - 2)
    => LET serveOrder == serveOrderOf(getStartingServer(last.set),
                                      getStartingReceiver(last.set))
           startIndex == indexOf(serveOrder, getStartingServer(last.set))
           byOvertime == at(serveOrder,
                            jsRem(startIndex + overtimeServeSteps(last.pointIndex), 4))
           byNormal == at(serveOrder,
                          jsRem(startIndex + normalServeSteps(last.pointIndex), 4))
       IN  /\ byOvertime = byNormal
           /\ byOvertime \in Players
           /\ last.val = byOvertime

(* C31 witness: the server of point win_points * 2 - 2 was asked for in a  *)
(* set that is in overtime at that point.                                  *)
C31_Witness ==
    /\ last.op = "getServingPlayerAtPoint"
    /\ win_points = 21
    /\ last.pointIndex = win_points * 2 - 2
    /\ isInOvertime(last.set, last.pointIndex)
    /\ last.val \in Players

-----------------------------------------------------------------------------
(* Properties of a set played point by point, checked under SpecPlay *)

(* C32: within one set played point by point, once a recorded point index  *)
(* i is classified as overtime by isInOvertime(set, i), every later        *)
(* recorded point index of that set, including the point that wins the     *)
(* set, is classified as overtime too.                                     *)
C32_OvertimeStays ==
    LET recorded == Len(getScoreHistory(1))
        overtime == {i \in 0..(recorded - 1) : isInOvertime(1, i)}
    IN  \A i \in overtime : \A j \in i..(recorded - 1) : j \in overtime

(* C32, what the code does: a recorded point index is classified by the    *)
(* scores after that point alone, so the point that wins an overtime by    *)
(* the margin is not classified as overtime.                               *)
C32_ClassifiedByScoresAlone ==
    LET recorded == Len(getScoreHistory(1))
    IN  \A i \in 0..(recorded - 1) :
            LET scoreA == getScoreAtPointIndex(1, "a", i)
                scoreB == getScoreAtPointIndex(1, "b", i)
                margin == IF scoreA >= scoreB THEN scoreA - scoreB ELSE scoreB - scoreA
            IN  (scoreA < hardcap /\ scoreB < hardcap /\ margin >= min_win_margin)
                => ~isInOvertime(1, i)

(* C33: for a set played point by point with a valid configuration, the    *)
(* server and the receiver computed for the upcoming point (pointIndex =   *)
(* scoreA + scoreB, before the point is recorded) are the players that     *)
(* calculateStatistics attributes to that point index after the point has  *)
(* been recorded.                                                          *)
C33_DisplayedPlayersAreCounted ==
    [][(/\ last'.op = "scoreInput"
        /\ <<starting_server[1], starting_receiver[1]>> \in ValidConfigs)
       => \A pointIndex \in {getTotalPointsInSet(1)} :
              /\ getServingPlayerAtPoint(pointIndex, 1)
                    = getServingPlayerAtPoint(pointIndex, 1)'
              /\ getReceivingPlayerAtPoint(pointIndex, 1)
                    = getReceivingPlayerAtPoint(pointIndex, 1)']_vars

-----------------------------------------------------------------------------
(* getServeInfo against the rotation, checked under SpecRot *)

(* C34: in every reachable state with a valid starting configuration and   *)
(* win_points in {15, 21}, the team returned by getServeInfo() equals the  *)
(* team of getServingPlayerAtPoint(scoreA + scoreB, active_set).           *)
C34_ServeInfoTeamIsServersTeam ==
    (/\ <<starting_server[active_set], starting_receiver[active_set]>> \in ValidConfigs
     /\ win_points \in {15, 21})
    => getServeInfo.team
          = getPlayerTeam(getServingPlayerAtPoint(getTotalPointsInSet(active_set),
                                                  active_set))

(* C34, where the code agrees: while both scores are below hardcap *)
C34_AgreesBelowHardcap ==
    (/\ <<starting_server[active_set], starting_receiver[active_set]>> \in ValidConfigs
     /\ win_points \in {15, 21}
     /\ getScore(active_set, "a") < hardcap
     /\ getScore(active_set, "b") < hardcap)
    => getServeInfo.team
          = getPlayerTeam(getServingPlayerAtPoint(getTotalPointsInSet(active_set),
                                                  active_set))

-----------------------------------------------------------------------------
(* setWinner against isInOvertime, checked under SpecWin *)

(* C35: for every score pair with both scores below hardcap and at least   *)
(* one score at or above win_points, exactly one of the two holds:         *)
(* setWinner returns a team, or isInOvertime is true; when both scores are *)
(* below win_points and below hardcap neither holds.                       *)
C35_WonOrOvertime ==
    LET scoreA == score[1]["a"]
        scoreB == score[1]["b"]
        belowCap == scoreA < hardcap /\ scoreB < hardcap
        winReached == scoreA >= win_points \/ scoreB >= win_points
    IN  /\ (last.op = "setWinner" /\ belowCap /\ winReached)
               => ((last.val \in Teams) <=> ~isInOvertime(1, -1))
        /\ (last.op = "isInOvertime" /\ belowCap /\ winReached)
               => ((last.val = TRUE) <=> setWinner(1) \notin Teams)
        /\ (last.op = "setWinner" /\ belowCap /\ ~winReached)
               => (last.val \notin Teams /\ ~isInOvertime(1, -1))
        /\ (last.op = "isInOvertime" /\ belowCap /\ ~winReached)
               => (last.val = FALSE /\ setWinner(1) \notin Teams)

(* C35 witness: 16:14 with win_points 15 is won and not in overtime *)
C35_Witness ==
    /\ last.op = "setWinner"
    /\ win_points = 15
    /\ score[1]["a"] = 16
    /\ score[1]["b"] = 14
    /\ last.val = "a"
    /\ ~isInOvertime(1, -1)

-----------------------------------------------------------------------------
(* Whole-match statistics against the statistics of the sets, checked      *)
(* under SpecStat                                                          *)

(* C36: each count of calculateStatistics('game') (team and player breaks, *)
(* breakOpportunities, sideouts, sideoutOpportunities) equals the sum over *)
(* sets 1..7 of the same count of calculateStatistics('set', s); the call  *)
(* for the game throws exactly when the call for one of the sets throws.   *)
C36_GameIsSumOfSets ==
    (last.op = "calculateStatistics" /\ last.type = "game")
    => \A setStats \in {<<calculateStatistics("set", 1), calculateStatistics("set", 2),
                          calculateStatistics("set", 3), calculateStatistics("set", 4),
                          calculateStatistics("set", 5), calculateStatistics("set", 6),
                          calculateStatistics("set", 7)>>} :
       LET total(count(_)) ==
               count(setStats[1]) + count(setStats[2]) + count(setStats[3])
                   + count(setStats[4]) + count(setStats[5]) + count(setStats[6])
                   + count(setStats[7])
       IN  /\ last.threw <=> \E s \in Sets : statisticsThrow("set", s)
           /\ ~last.threw =>
                /\ last.val.teamA.breaks = total(LAMBDA st : st.teamA.breaks)
                /\ last.val.teamB.breaks = total(LAMBDA st : st.teamB.breaks)
                /\ last.val.teamA.breakOpportunities
                     = total(LAMBDA st : st.teamA.breakOpportunities)
                /\ last.val.teamB.breakOpportunities
                     = total(LAMBDA st : st.teamB.breakOpportunities)
                /\ \A player \in Players :
                      /\ last.val.players[player].breaks
                           = total(LAMBDA st : st.players[player].breaks)
                      /\ last.val.players[player].breakOpportunities
                           = total(LAMBDA st : st.players[player].breakOpportunities)
                      /\ last.val.players[player].sideouts
                           = total(LAMBDA st : st.players[player].sideouts)
                      /\ last.val.players[player].sideoutOpportunities
                           = total(LAMBDA st : st.players[player].sideoutOpportunities)

(* C36 witness: the statistics of a game with points in sets 1 and 2 *)
C36_Witness ==
    /\ last.op = "calculateStatistics"
    /\ last.type = "game"
    /\ ~last.threw
    /\ Len(getScoreHistory(1)) >= 2
    /\ Len(getScoreHistory(2)) >= 1
    /\ last.val.teamA.breakOpportunities + last.val.teamB.breakOpportunities >= 3

(* C37: for every log and scope, the result of calculateStatistics         *)
(* conserves points: teamA.breakOpportunities + teamB.breakOpportunities   *)
(* equals the number of processed score events, which equals (teamA.breaks *)
(* + teamB.breaks) + the sum of the four players' sideouts; every count is *)
(* <= its opportunities and every percentage is in 0..100.                 *)
C37_PointsConserved ==
    (last.op = "calculateStatistics" /\ ~last.threw)
    => LET processed == Len(eventsToProcess(last.type, last.set))
           sideouts == last.val.players["a"].sideouts + last.val.players["b"].sideouts
                       + last.val.players["c"].sideouts + last.val.players["d"].sideouts
       IN  /\ last.val.teamA.breakOpportunities + last.val.teamB.breakOpportunities
                = processed
           /\ last.val.teamA.breaks + last.val.teamB.breaks + sideouts = processed
           /\ last.val.teamA.breaks <= last.val.teamA.breakOpportunities
           /\ last.val.teamB.breaks <= last.val.teamB.breakOpportunities
           /\ last.val.teamA.breakPercentage \in 0..100
           /\ last.val.teamB.breakPercentage \in 0..100
           /\ \A player \in Players :
                 /\ last.val.players[player].breaks
                      <= last.val.players[player].breakOpportunities
                 /\ last.val.players[player].sideouts
                      <= last.val.players[player].sideoutOpportunities
                 /\ last.val.players[player].breakPercentage \in 0..100
                 /\ last.val.players[player].sideoutPercentage \in 0..100

(* C37 witness: a returned result with three processed events, a break and *)
(* a sideout, and a percentage strictly between 0 and 100.                 *)
C37_Witness ==
    /\ last.op = "calculateStatistics"
    /\ ~last.threw
    /\ Len(eventsToProcess(last.type, last.set)) >= 3
    /\ last.val.teamA.breaks + last.val.teamB.breaks >= 1
    /\ \E player \in Players : last.val.players[player].sideouts >= 1
    /\ \E player \in Players :
          /\ last.val.players[player].breakPercentage > 0
          /\ last.val.players[player].breakPercentage < 100

-----------------------------------------------------------------------------
(* The receivers of normal play, checked under SpecRot *)

(* C38: in normal play, for every valid configuration, the two serves of   *)
(* one double-serve turn go to the two different players of the opposing   *)
(* team, and over any 8 consecutive point indices each player receives     *)
(* exactly twice.                                                          *)
C38_NormalReceiverSequence ==
    (/\ last.op = "getReceivingPlayerAtPoint"
     /\ \A q \in last.pointIndex..(last.pointIndex + 8) : ~isInOvertime(last.set, q))
    => \A p \in {last.pointIndex} :
       LET server(q) == getServingPlayerAtPoint(q, last.set)
           receiver(q) == getReceivingPlayerAtPoint(q, last.set)
       IN  /\ last.val = receiver(p)
           /\ last.val \in Players
           /\ server(p) = server(p + 1) =>
                 /\ receiver(p + 1) \in Players
                 /\ receiver(p + 1) # last.val
                 /\ getPlayerTeam(receiver(p + 1)) = getPlayerTeam(last.val)
                 /\ getPlayerTeam(last.val) # getPlayerTeam(server(p))
           /\ \A player \in Players :
                 Cardinality({q \in p..(p + 7) : receiver(q) = player}) = 2

(* C38 witness: the first serve of a double-serve turn in normal play, the *)
(* next serve of the same server going to the receiver's partner.          *)
C38_Witness ==
    /\ last.op = "getReceivingPlayerAtPoint"
    /\ last.pointIndex = 5
    /\ \A q \in 5..13 : ~isInOvertime(1, q)
    /\ getServingPlayerAtPoint(5, 1) = getServingPlayerAtPoint(6, 1)
    /\ getReceivingPlayerAtPoint(6, 1) # last.val
    /\ getPlayerTeam(getReceivingPlayerAtPoint(6, 1)) = getPlayerTeam(last.val)

=============================================================================
